---- MODULE Spec2Model ----
(***************************************************************************)
(* Boxiii builder backend: the three entity stores (creators, content      *)
(* sets, content cards) behind the data interfaces, in their relational    *)
(* (PostgreSQL / SQLAlchemy) and file-backed (JSON) implementations.       *)
(*                                                                         *)
(* A Python dict is a record with a field "keys" (the keys the dict has)   *)
(* and one field per possible key; a field whose key is absent holds the   *)
(* fixed filler NoId / NoStr / 0, so that equal dicts are equal records.   *)
(* A table of the relational store is a set of rows; the primary-key and   *)
(* foreign-key constraints of database/models.py are checked where the     *)
(* database checks them (at flush / commit).  A file of the JSON store is  *)
(* the list of dicts that json.load returns.                               *)
(*                                                                         *)
(* Not modelled: the timestamps created_at / updated_at, and the columns   *)
(* that no operation below reads (title, summary, tags, ...).  Request     *)
(* payloads always carry the fields the request models of api_server.py    *)
(* require (display_name, creator_id of a set, set_id and creator_id of a  *)
(* card).                                                                  *)
(***************************************************************************)
EXTENDS Integers, Sequences, FiniteSets, TLC

\* ---------------------------------------------------------------- bounds
\* largest card_count a caller supplies
MaxCount == 2
\* largest order_index a caller supplies
MaxOrder == 1
\* longest list the model lets a JSON file grow to
MaxLen == 2
\* number of calls a run of the store makes
MaxCalls == 3
\* number of concurrent transactions on the relational store
NumTx == 2

\* ----------------------------------------------------------- input pools
CreatorIds == {"c1", "c2"}
SetIds == {"s1", "s2"}
CardIds == {"s1_card_001", "s2_card_001"}
Names == {"Ada", "Bob"}
Levels == {"intermediate", "advanced"}
SuppliedCounts == {0, MaxCount}
OrderVals == 1..MaxOrder
NoId == "-"
NoStr == ""

VARIABLES
    backend,      \* which implementation the DataManager was composed with
    pgCreators,   \* table creators: set of rows
    pgSets,       \* table content_sets
    pgCards,      \* table content_cards
    jsCreators,   \* creators.json: list of dicts
    jsSets,       \* content_sets.json
    jsCards,      \* cards.json
    last,         \* the last call: [op, id, ok]
    calls,        \* number of calls made so far
    tx,           \* the open transactions of the concurrent run
    fn            \* the call in hand: arguments, and what it returned or wrote

pgVars == <<pgCreators, pgSets, pgCards>>
jsVars == <<jsCreators, jsSets, jsCards>>
vars == <<backend, pgCreators, pgSets, pgCards, jsCreators, jsSets, jsCards, last, calls, tx, fn>>

\* ------------------------------------------------------------ dict helpers
Has(d, k) == k \in d.keys
Get(d, k, default) == IF k \in d.keys THEN d[k] ELSE default

CreatorDict(K, i, n) ==
    [keys |-> K,
     creator_id |-> IF "creator_id" \in K THEN i ELSE NoId,
     display_name |-> IF "display_name" \in K THEN n ELSE NoStr]

SetDict(K, i, c, lv, n) ==
    [keys |-> K,
     set_id |-> IF "set_id" \in K THEN i ELSE NoId,
     creator_id |-> IF "creator_id" \in K THEN c ELSE NoId,
     difficulty_level |-> IF "difficulty_level" \in K THEN lv ELSE NoStr,
     card_count |-> IF "card_count" \in K THEN n ELSE 0]

CardDict(K, i, s, c, o) ==
    [keys |-> K,
     card_id |-> IF "card_id" \in K THEN i ELSE NoId,
     set_id |-> IF "set_id" \in K THEN s ELSE NoId,
     creator_id |-> IF "creator_id" \in K THEN c ELSE NoId,
     order_index |-> IF "order_index" \in K THEN o ELSE 0]

CreatorKeys == {"creator_id", "display_name"}
SetKeys == {"set_id", "creator_id", "difficulty_level", "card_count"}
CardKeys == {"card_id", "set_id", "creator_id", "order_index"}

\* every dict over the pools, with any subset of the keys
CreatorDicts ==
    {CreatorDict(K, i, n) : K \in SUBSET CreatorKeys, i \in CreatorIds, n \in Names}
SetDicts ==
    UNION {{SetDict(K, i, c, lv, n) : K \in SUBSET SetKeys, i \in SetIds, c \in CreatorIds} :
           lv \in Levels, n \in SuppliedCounts}
CardDicts ==
    UNION {{CardDict(K, i, s, c, o) : K \in SUBSET CardKeys, i \in CardIds, s \in SetIds} :
           c \in CreatorIds, o \in OrderVals}

\* payloads of create calls: the required fields are present
CreatorCreateData == {d \in CreatorDicts : Has(d, "display_name")}
SetCreateData == {d \in SetDicts : Has(d, "creator_id")}
CardCreateData == {d \in CardDicts : Has(d, "set_id") /\ Has(d, "creator_id")}

Tx == 1..NumTx
Idle == [pc |-> "idle", op |-> "-", card_id |-> NoId, read |-> 0, ok |-> FALSE]

\* no call in hand
NoFn == [op |-> "-"]

\* the call op(id) returns (ok) or raises (~ok); calls are made one at a time
Called(op, id, ok) ==
    /\ calls < MaxCalls
    /\ calls' = calls + 1
    /\ last' = [op |-> op, id |-> id, ok |-> ok]
    /\ UNCHANGED <<tx, fn>>

\* ------------------------------------------------- relational constraints
\* database/models.py: the primary keys and the ForeignKey columns
HasCreator(rows, id) == \E r \in rows : r.creator_id = id
HasSet(rows, id) == \E r \in rows : r.set_id = id
HasCard(rows, id) == \E r \in rows : r.card_id = id

CreatorRow(id) == CHOOSE r \in pgCreators : r.creator_id = id
SetRow(id) == CHOOSE r \in pgSets : r.set_id = id
CardRow(id) == CHOOSE r \in pgCards : r.card_id = id

CardsOfSet(cards, sid) == {c \in cards : c.set_id = sid}

\* the store's state when a transaction rolls back
Rollback == UNCHANGED pgVars

\* ============================================================ relational
\* PostgreSQLCreatorData.create_creator.  uuid is the fresh suffix of the id
\* generated when the payload has no creator_id.
PostgreSQLCreatorData_create_creator(creator_data, uuid) ==
    /\ backend = "postgresql"
    /\ Has(creator_data, "creator_id") \/ ~HasCreator(pgCreators, uuid)
    /\ LET id == Get(creator_data, "creator_id", uuid)
           creator == [creator_id |-> id, display_name |-> creator_data.display_name]
       IN IF HasCreator(pgCreators, id)
          THEN \* IntegrityError -> rollback, ValueError
               Rollback /\ Called("create_creator", id, FALSE)
          ELSE /\ pgCreators' = pgCreators \cup {creator}
               /\ UNCHANGED <<pgSets, pgCards>>
               /\ Called("create_creator", id, TRUE)
    /\ UNCHANGED <<backend, jsVars>>

PostgreSQLCreatorData_get_creator(creator_id) ==
    /\ backend = "postgresql"
    /\ Called("get_creator", creator_id, HasCreator(pgCreators, creator_id))
    /\ UNCHANGED <<backend, pgVars, jsVars>>

PostgreSQLCreatorData_update_creator(creator_id, updates) ==
    /\ backend = "postgresql"
    /\ IF ~HasCreator(pgCreators, creator_id)
       THEN Rollback /\ Called("update_creator", creator_id, FALSE)
       ELSE LET creator == CreatorRow(creator_id)
                \* every key but creator_id is set on the row
                updated == [creator EXCEPT
                              !.display_name = Get(updates, "display_name", @)]
            IN /\ pgCreators' = (pgCreators \ {creator}) \cup {updated}
               /\ UNCHANGED <<pgSets, pgCards>>
               /\ Called("update_creator", creator_id, TRUE)
    /\ UNCHANGED <<backend, jsVars>>

\* session.delete(creator): the relationships content_sets and content_cards
\* cascade "all, delete-orphan", and each deleted set cascades to its cards.
CreatorCascadeSets(creator_id) == {s \in pgSets : s.creator_id = creator_id}
CreatorCascadeCards(creator_id) ==
    {c \in pgCards : \/ c.creator_id = creator_id
                     \/ \E s \in CreatorCascadeSets(creator_id) : c.set_id = s.set_id}

PostgreSQLCreatorData_delete_creator(creator_id) ==
    /\ backend = "postgresql"
    /\ IF ~HasCreator(pgCreators, creator_id)
       THEN UNCHANGED pgVars /\ Called("delete_creator", creator_id, FALSE)
       ELSE /\ pgCreators' = pgCreators \ {CreatorRow(creator_id)}
            /\ pgSets' = pgSets \ CreatorCascadeSets(creator_id)
            /\ pgCards' = pgCards \ CreatorCascadeCards(creator_id)
            /\ Called("delete_creator", creator_id, TRUE)
    /\ UNCHANGED <<backend, jsVars>>

\* PostgreSQLContentSetData.create_set.  stamp is the id built from creator,
\* category and the minute of the call when the payload has no set_id: two
\* calls within a minute build the same id.
PostgreSQLContentSetData_create_set(set_data, stamp) ==
    /\ backend = "postgresql"
    /\ LET id == Get(set_data, "set_id", stamp)
           content_set == [set_id |-> id,
                           creator_id |-> set_data.creator_id,
                           difficulty_level |-> Get(set_data, "difficulty_level", "intermediate"),
                           card_count |-> Get(set_data, "card_count", 0)]
       IN IF HasSet(pgSets, id) \/ ~HasCreator(pgCreators, content_set.creator_id)
          THEN Rollback /\ Called("create_set", id, FALSE)
          ELSE /\ pgSets' = pgSets \cup {content_set}
               /\ UNCHANGED <<pgCreators, pgCards>>
               /\ Called("create_set", id, TRUE)
    /\ UNCHANGED <<backend, jsVars>>

PostgreSQLContentSetData_get_set(set_id) ==
    /\ backend = "postgresql"
    /\ Called("get_set", set_id, HasSet(pgSets, set_id))
    /\ UNCHANGED <<backend, pgVars, jsVars>>

\* the row update_set commits: every key but set_id is set on the row
SetAfterUpdate(content_set, updates) ==
    [set_id |-> content_set.set_id,
     creator_id |-> Get(updates, "creator_id", content_set.creator_id),
     difficulty_level |-> Get(updates, "difficulty_level", content_set.difficulty_level),
     card_count |-> Get(updates, "card_count", content_set.card_count)]

PostgreSQLContentSetData_update_set(set_id, updates) ==
    /\ backend = "postgresql"
    /\ IF ~HasSet(pgSets, set_id)
       THEN Rollback /\ Called("update_set", set_id, FALSE)
       ELSE LET content_set == SetRow(set_id)
                updated == SetAfterUpdate(content_set, updates)
            IN IF ~HasCreator(pgCreators, updated.creator_id)
               THEN Rollback /\ Called("update_set", set_id, FALSE)
               ELSE /\ pgSets' = (pgSets \ {content_set}) \cup {updated}
                    /\ UNCHANGED <<pgCreators, pgCards>>
                    /\ Called("update_set", set_id, TRUE)
    /\ UNCHANGED <<backend, jsVars>>

PostgreSQLContentSetData_delete_set(set_id) ==
    /\ backend = "postgresql"
    /\ IF ~HasSet(pgSets, set_id)
       THEN UNCHANGED pgVars /\ Called("delete_set", set_id, FALSE)
       ELSE /\ pgSets' = pgSets \ {SetRow(set_id)}
            /\ pgCards' = pgCards \ CardsOfSet(pgCards, set_id)
            /\ UNCHANGED pgCreators
            /\ Called("delete_set", set_id, TRUE)
    /\ UNCHANGED <<backend, jsVars>>

\* content_set.card_count += d on the row of set_id, when there is one
BumpCardCount(sets, set_id, d) ==
    {IF s.set_id = set_id THEN [s EXCEPT !.card_count = @ + d] ELSE s : s \in sets}

\* PostgreSQLContentData.create_card.  uuid is the fresh suffix of the id
\* generated when the payload has no card_id.  The INSERT is flushed by the
\* query for the set; card and count are committed together.
PostgreSQLContentData_create_card(card_data, uuid) ==
    /\ backend = "postgresql"
    /\ Has(card_data, "card_id") \/ ~HasCard(pgCards, uuid)
    /\ LET id == Get(card_data, "card_id", uuid)
           max_order == Cardinality(CardsOfSet(pgCards, card_data.set_id))
           card == [card_id |-> id,
                    set_id |-> card_data.set_id,
                    creator_id |-> card_data.creator_id,
                    order_index |-> Get(card_data, "order_index", max_order + 1)]
       IN IF \/ HasCard(pgCards, id)
             \/ ~HasSet(pgSets, card.set_id)
             \/ ~HasCreator(pgCreators, card.creator_id)
          THEN Rollback /\ Called("create_card", id, FALSE)
          ELSE /\ pgCards' = pgCards \cup {card}
               /\ pgSets' = BumpCardCount(pgSets, card.set_id, 1)
               /\ UNCHANGED pgCreators
               /\ Called("create_card", id, TRUE)
    /\ UNCHANGED <<backend, jsVars>>

PostgreSQLContentData_get_card(card_id) ==
    /\ backend = "postgresql"
    /\ Called("get_card", card_id, HasCard(pgCards, card_id))
    /\ UNCHANGED <<backend, pgVars, jsVars>>

\* the row update_card commits: every key but card_id is set on the row
CardAfterUpdate(card, updates) ==
    [card_id |-> card.card_id,
     set_id |-> Get(updates, "set_id", card.set_id),
     creator_id |-> Get(updates, "creator_id", card.creator_id),
     order_index |-> Get(updates, "order_index", card.order_index)]

PostgreSQLContentData_update_card(card_id, updates) ==
    /\ backend = "postgresql"
    /\ IF ~HasCard(pgCards, card_id)
       THEN Rollback /\ Called("update_card", card_id, FALSE)
       ELSE LET card == CardRow(card_id)
                updated == CardAfterUpdate(card, updates)
            IN IF \/ ~HasSet(pgSets, updated.set_id)
                  \/ ~HasCreator(pgCreators, updated.creator_id)
               THEN Rollback /\ Called("update_card", card_id, FALSE)
               ELSE /\ pgCards' = (pgCards \ {card}) \cup {updated}
                    /\ UNCHANGED <<pgCreators, pgSets>>
                    /\ Called("update_card", card_id, TRUE)
    /\ UNCHANGED <<backend, jsVars>>

PostgreSQLContentData_delete_card(card_id) ==
    /\ backend = "postgresql"
    /\ IF ~HasCard(pgCards, card_id)
       THEN UNCHANGED pgVars /\ Called("delete_card", card_id, FALSE)
       ELSE LET card == CardRow(card_id)
            IN /\ pgCards' = pgCards \ {card}
               /\ pgSets' = BumpCardCount(pgSets, card.set_id, -1)
               /\ UNCHANGED pgCreators
               /\ Called("delete_card", card_id, TRUE)
    /\ UNCHANGED <<backend, jsVars>>

\* main.py: the id of a card is built from its set and its order_index
generate_card_id(set_id, order_index) ==
    CASE set_id = "s1" /\ order_index = 1 -> "s1_card_001"
      [] set_id = "s2" /\ order_index = 1 -> "s2_card_001"

\* the HTTP handler is called with the first position of a set
MainOrderVals == {1}
MainCardCreateData ==
    {d \in CardCreateData : d.keys = {"set_id", "creator_id", "order_index"}
                            /\ d.order_index \in MainOrderVals}

\* main.py POST /api/cards: the handler works on the tables directly; the
\* session does not autoflush, so the count query does not see the new card.
create_content_card(card_data) ==
    /\ backend = "postgresql"
    /\ LET card_id == generate_card_id(card_data.set_id, card_data.order_index)
           card == [card_id |-> card_id,
                    set_id |-> card_data.set_id,
                    creator_id |-> card_data.creator_id,
                    order_index |-> card_data.order_index]
       IN IF \/ ~HasCreator(pgCreators, card.creator_id)   \* 404
             \/ ~HasSet(pgSets, card.set_id)               \* 404
             \/ HasCard(pgCards, card_id)                  \* IntegrityError, 400
          THEN Rollback /\ Called("create_content_card", card_id, FALSE)
          ELSE LET content_set == SetRow(card.set_id)
                   counted == Cardinality(CardsOfSet(pgCards, card.set_id)) + 1
               IN /\ pgCards' = pgCards \cup {card}
                  /\ pgSets' = (pgSets \ {content_set})
                                   \cup {[content_set EXCEPT !.card_count = counted]}
                  /\ UNCHANGED pgCreators
                  /\ Called("create_content_card", card_id, TRUE)
    /\ UNCHANGED <<backend, jsVars>>

\* api_server.py PUT /api/sets/{set_id}: the body is parsed as a SetCreate
\* (creator_id required, difficulty_level defaulted) and content_set.dict()
\* is handed to the store, defaults included.
SetCreateBodies ==
    {d \in SetDicts : "creator_id" \in d.keys
                      /\ d.keys \subseteq {"creator_id", "difficulty_level"}}
SetCreate_dict(content_set) ==
    SetDict({"creator_id", "difficulty_level"}, NoId, content_set.creator_id,
            Get(content_set, "difficulty_level", "intermediate"), 0)

api_server_update_set(set_id, content_set) ==
    PostgreSQLContentSetData_update_set(set_id, SetCreate_dict(content_set))

\* ============================================================== file-backed
\* json_data_impl.py: every call loads the whole list, scans it for the first
\* dict with the id, and saves the whole list back.
FirstIndex(list, key, id) ==
    IF \E i \in 1..Len(list) : list[i][key] = id
    THEN CHOOSE i \in 1..Len(list) :
             /\ list[i][key] = id
             /\ \A j \in 1..(i - 1) : list[j][key] # id
    ELSE 0

\* list.pop(i)
Pop(list, i) == SubSeq(list, 1, i - 1) \o SubSeq(list, i + 1, Len(list))

IdsOf(list, key) == {list[i][key] : i \in 1..Len(list)}

\* {**creator, **creator_data}
MergeCreator(a, b) ==
    [keys |-> a.keys \cup b.keys,
     creator_id |-> IF "creator_id" \in b.keys THEN b.creator_id ELSE a.creator_id,
     display_name |-> IF "display_name" \in b.keys THEN b.display_name ELSE a.display_name]

MergeSet(a, b) ==
    [keys |-> a.keys \cup b.keys,
     set_id |-> IF "set_id" \in b.keys THEN b.set_id ELSE a.set_id,
     creator_id |-> IF "creator_id" \in b.keys THEN b.creator_id ELSE a.creator_id,
     difficulty_level |-> IF "difficulty_level" \in b.keys THEN b.difficulty_level
                          ELSE a.difficulty_level,
     card_count |-> IF "card_count" \in b.keys THEN b.card_count ELSE a.card_count]

MergeCard(a, b) ==
    [keys |-> a.keys \cup b.keys,
     card_id |-> IF "card_id" \in b.keys THEN b.card_id ELSE a.card_id,
     set_id |-> IF "set_id" \in b.keys THEN b.set_id ELSE a.set_id,
     creator_id |-> IF "creator_id" \in b.keys THEN b.creator_id ELSE a.creator_id,
     order_index |-> IF "order_index" \in b.keys THEN b.order_index ELSE a.order_index]

\* the dict { key: id } of the entity whose merge is M
IdOnly(key, id) ==
    CASE key = "creator_id" -> CreatorDict({"creator_id"}, id, NoStr)
      [] key = "set_id" -> SetDict({"set_id"}, id, NoId, NoStr, 0)
      [] key = "card_id" -> CardDict({"card_id"}, id, NoId, NoId, 0)

JSONCreatorData_create_creator(creator_data, uuid) ==
    /\ backend = "json"
    /\ Len(jsCreators) < MaxLen
    /\ Has(creator_data, "creator_id") \/ uuid \notin IdsOf(jsCreators, "creator_id")
    /\ LET id == Get(creator_data, "creator_id", uuid)
       IN /\ jsCreators' = Append(jsCreators,
                                  MergeCreator(creator_data, IdOnly("creator_id", id)))
          /\ Called("create_creator", id, TRUE)
    /\ UNCHANGED <<backend, pgVars, jsSets, jsCards>>

JSONCreatorData_get_creator(creator_id) ==
    /\ backend = "json"
    /\ Called("get_creator", creator_id, FirstIndex(jsCreators, "creator_id", creator_id) # 0)
    /\ UNCHANGED <<backend, pgVars, jsVars>>

JSONCreatorData_update_creator(creator_id, creator_data) ==
    /\ backend = "json"
    /\ LET i == FirstIndex(jsCreators, "creator_id", creator_id)
       IN IF i = 0
          THEN UNCHANGED jsCreators /\ Called("update_creator", creator_id, FALSE)
          ELSE /\ jsCreators' =
                      [jsCreators EXCEPT ![i] =
                          MergeCreator(@, MergeCreator(creator_data,
                                                       IdOnly("creator_id", creator_id)))]
               /\ Called("update_creator", creator_id, TRUE)
    /\ UNCHANGED <<backend, pgVars, jsSets, jsCards>>

JSONCreatorData_delete_creator(creator_id) ==
    /\ backend = "json"
    /\ LET i == FirstIndex(jsCreators, "creator_id", creator_id)
       IN IF i = 0
          THEN UNCHANGED jsCreators /\ Called("delete_creator", creator_id, FALSE)
          ELSE jsCreators' = Pop(jsCreators, i) /\ Called("delete_creator", creator_id, TRUE)
    /\ UNCHANGED <<backend, pgVars, jsSets, jsCards>>

JSONContentSetData_create_set(set_data, uuid) ==
    /\ backend = "json"
    /\ Len(jsSets) < MaxLen
    /\ Has(set_data, "set_id") \/ uuid \notin IdsOf(jsSets, "set_id")
    /\ LET id == Get(set_data, "set_id", uuid)
       IN /\ jsSets' = Append(jsSets, MergeSet(set_data, IdOnly("set_id", id)))
          /\ Called("create_set", id, TRUE)
    /\ UNCHANGED <<backend, pgVars, jsCreators, jsCards>>

JSONContentSetData_get_set(set_id) ==
    /\ backend = "json"
    /\ Called("get_set", set_id, FirstIndex(jsSets, "set_id", set_id) # 0)
    /\ UNCHANGED <<backend, pgVars, jsVars>>

JSONContentSetData_update_set(set_id, set_data) ==
    /\ backend = "json"
    /\ LET i == FirstIndex(jsSets, "set_id", set_id)
       IN IF i = 0
          THEN UNCHANGED jsSets /\ Called("update_set", set_id, FALSE)
          ELSE /\ jsSets' =
                      [jsSets EXCEPT ![i] =
                          MergeSet(@, MergeSet(set_data, IdOnly("set_id", set_id)))]
               /\ Called("update_set", set_id, TRUE)
    /\ UNCHANGED <<backend, pgVars, jsCreators, jsCards>>

JSONContentSetData_delete_set(set_id) ==
    /\ backend = "json"
    /\ LET i == FirstIndex(jsSets, "set_id", set_id)
       IN IF i = 0
          THEN UNCHANGED jsSets /\ Called("delete_set", set_id, FALSE)
          ELSE jsSets' = Pop(jsSets, i) /\ Called("delete_set", set_id, TRUE)
    /\ UNCHANGED <<backend, pgVars, jsCreators, jsCards>>

JSONContentData_create_card(card_data, uuid) ==
    /\ backend = "json"
    /\ Len(jsCards) < MaxLen
    /\ Has(card_data, "card_id") \/ uuid \notin IdsOf(jsCards, "card_id")
    /\ LET id == Get(card_data, "card_id", uuid)
       IN /\ jsCards' = Append(jsCards, MergeCard(card_data, IdOnly("card_id", id)))
          /\ Called("create_card", id, TRUE)
    /\ UNCHANGED <<backend, pgVars, jsCreators, jsSets>>

JSONContentData_get_card(card_id) ==
    /\ backend = "json"
    /\ Called("get_card", card_id, FirstIndex(jsCards, "card_id", card_id) # 0)
    /\ UNCHANGED <<backend, pgVars, jsVars>>

JSONContentData_update_card(card_id, card_data) ==
    /\ backend = "json"
    /\ LET i == FirstIndex(jsCards, "card_id", card_id)
       IN IF i = 0
          THEN UNCHANGED jsCards /\ Called("update_card", card_id, FALSE)
          ELSE /\ jsCards' =
                      [jsCards EXCEPT ![i] =
                          MergeCard(@, MergeCard(card_data, IdOnly("card_id", card_id)))]
               /\ Called("update_card", card_id, TRUE)
    /\ UNCHANGED <<backend, pgVars, jsCreators, jsSets>>

\* A faulty variant of delete_card: it saves the list without every card from
\* the matching one on, instead of popping the matching one.
JSONContentData_delete_card_truncate(card_id) ==
    /\ backend = "json"
    /\ LET i == FirstIndex(jsCards, "card_id", card_id)
       IN IF i = 0
          THEN UNCHANGED jsCards /\ Called("delete_card", card_id, FALSE)
          ELSE /\ jsCards' = SubSeq(jsCards, 1, i - 1)
               /\ Called("delete_card", card_id, TRUE)
    /\ UNCHANGED <<backend, pgVars, jsCreators, jsSets>>

JSONContentData_delete_card(card_id) ==
    /\ backend = "json"
    /\ LET i == FirstIndex(jsCards, "card_id", card_id)
       IN IF i = 0
          THEN UNCHANGED jsCards /\ Called("delete_card", card_id, FALSE)
          ELSE jsCards' = Pop(jsCards, i) /\ Called("delete_card", card_id, TRUE)
    /\ UNCHANGED <<backend, pgVars, jsCreators, jsSets>>

\* payloads the file-backed store is driven with: the JSON code never reads
\* difficulty_level or order_index, so these keys are left out
JSONSetDicts == {d \in SetDicts : ~Has(d, "difficulty_level")}
JSONCardDicts == {d \in CardDicts : ~Has(d, "order_index")}

NextJSON ==
    \/ \E d \in CreatorCreateData, u \in CreatorIds : JSONCreatorData_create_creator(d, u)
    \/ \E id \in CreatorIds : JSONCreatorData_get_creator(id)
    \/ \E id \in CreatorIds, u \in CreatorDicts : JSONCreatorData_update_creator(id, u)
    \/ \E id \in CreatorIds : JSONCreatorData_delete_creator(id)
    \/ \E d \in SetCreateData \cap JSONSetDicts, u \in SetIds :
           JSONContentSetData_create_set(d, u)
    \/ \E id \in SetIds : JSONContentSetData_get_set(id)
    \/ \E id \in SetIds, u \in JSONSetDicts : JSONContentSetData_update_set(id, u)
    \/ \E id \in SetIds : JSONContentSetData_delete_set(id)
    \/ \E d \in CardCreateData \cap JSONCardDicts, u \in CardIds :
           JSONContentData_create_card(d, u)
    \/ \E id \in CardIds : JSONContentData_get_card(id)
    \/ \E id \in CardIds, u \in JSONCardDicts : JSONContentData_update_card(id, u)
    \/ \E id \in CardIds : JSONContentData_delete_card(id)

\* ================================================================== system
NoCall == [op |-> "init", id |-> NoId, ok |-> TRUE]

Init ==
    /\ backend \in {"postgresql", "json"}
    /\ pgCreators = {} /\ pgSets = {} /\ pgCards = {}
    /\ jsCreators = <<>> /\ jsSets = <<>> /\ jsCards = <<>>
    /\ last = NoCall
    /\ calls = 0
    /\ tx = [t \in Tx |-> Idle]
    /\ fn = NoFn

NextPostgreSQL ==
    \/ \E d \in CreatorCreateData, u \in CreatorIds :
           PostgreSQLCreatorData_create_creator(d, u)
    \/ \E id \in CreatorIds : PostgreSQLCreatorData_get_creator(id)
    \/ \E id \in CreatorIds, u \in CreatorDicts :
           PostgreSQLCreatorData_update_creator(id, u)
    \/ \E id \in CreatorIds : PostgreSQLCreatorData_delete_creator(id)
    \/ \E d \in SetCreateData, u \in SetIds :
           PostgreSQLContentSetData_create_set(d, u)
    \/ \E id \in SetIds : PostgreSQLContentSetData_get_set(id)
    \/ \E id \in SetIds, u \in SetDicts :
           PostgreSQLContentSetData_update_set(id, u)
    \/ \E id \in SetIds : PostgreSQLContentSetData_delete_set(id)
    \/ \E d \in CardCreateData, u \in CardIds :
           PostgreSQLContentData_create_card(d, u)
    \/ \E id \in CardIds : PostgreSQLContentData_get_card(id)
    \/ \E id \in CardIds, u \in CardDicts :
           PostgreSQLContentData_update_card(id, u)
    \/ \E id \in CardIds : PostgreSQLContentData_delete_card(id)
    \/ \E d \in MainCardCreateData : create_content_card(d)
    \/ \E id \in SetIds, b \in SetCreateBodies : api_server_update_set(id, b)

Next == NextPostgreSQL \/ NextJSON

Spec == Init /\ [][Next]_vars

\* ============================================================ concurrency
\* Several create_card / delete_card calls of the relational store run at
\* once, each in its own session (READ COMMITTED).  A call is three steps:
\*   begin  - session.add(card), or the query that looks the card up;
\*   flush  - the query for the set autoflushes the pending INSERT / DELETE
\*            (which waits on a row another open transaction has written)
\*            and reads the committed card_count;
\*   commit - UPDATE content_sets SET card_count = <value computed from the
\*            read> and COMMIT, in one session.commit().
TxSet == "s1"
TxCreator == "c1"
TxCard(card_id) ==
    [card_id |-> card_id, set_id |-> TxSet, creator_id |-> TxCreator, order_index |-> 1]
TxOps == {"create_card", "delete_card"}

\* another open transaction has flushed a write of the same card row
RowLocked(t, card_id) ==
    \E u \in Tx \ {t} : tx[u].pc = "flushed" /\ tx[u].card_id = card_id

TxBegin(t, op, card_id) ==
    /\ tx[t].pc = "idle"
    /\ IF op = "delete_card" /\ ~HasCard(pgCards, card_id)
       THEN \* if card: ... else return False
            tx' = [tx EXCEPT ![t] = [pc |-> "done", op |-> op, card_id |-> card_id,
                                     read |-> 0, ok |-> FALSE]]
       ELSE tx' = [tx EXCEPT ![t] = [pc |-> "started", op |-> op, card_id |-> card_id,
                                     read |-> 0, ok |-> FALSE]]
    /\ UNCHANGED <<backend, pgVars, jsVars, last, calls, fn>>

\* A faulty variant of the flush: the session is in autocommit mode, so the
\* flushed INSERT / DELETE is visible to other sessions before the count is.
TxFlush_autocommit(t) ==
    /\ tx[t].pc = "started"
    /\ ~RowLocked(t, tx[t].card_id)
    /\ IF tx[t].op = "create_card" /\ HasCard(pgCards, tx[t].card_id)
       THEN tx' = [tx EXCEPT ![t].pc = "done", ![t].ok = FALSE] /\ UNCHANGED pgCards
       ELSE /\ tx' = [tx EXCEPT ![t].pc = "flushed",
                                ![t].read = SetRow(TxSet).card_count]
            /\ pgCards' = IF tx[t].op = "create_card"
                          THEN pgCards \cup {TxCard(tx[t].card_id)}
                          ELSE pgCards \ {TxCard(tx[t].card_id)}
    /\ UNCHANGED <<backend, pgCreators, pgSets, jsVars, last, calls, fn>>

TxFlush(t) ==
    /\ tx[t].pc = "started"
    /\ ~RowLocked(t, tx[t].card_id)
    /\ IF tx[t].op = "create_card" /\ HasCard(pgCards, tx[t].card_id)
       THEN \* IntegrityError -> session.rollback(), raise
            tx' = [tx EXCEPT ![t].pc = "done", ![t].ok = FALSE]
       ELSE tx' = [tx EXCEPT ![t].pc = "flushed",
                             ![t].read = SetRow(TxSet).card_count]
    /\ UNCHANGED <<backend, pgVars, jsVars, last, calls, fn>>

TxCommit(t) ==
    /\ tx[t].pc = "flushed"
    /\ LET content_set == SetRow(TxSet)
           d == IF tx[t].op = "create_card" THEN 1 ELSE -1
       IN /\ pgCards' = IF tx[t].op = "create_card"
                        THEN pgCards \cup {TxCard(tx[t].card_id)}
                        ELSE pgCards \ {TxCard(tx[t].card_id)}
          /\ pgSets' = (pgSets \ {content_set})
                           \cup {[content_set EXCEPT !.card_count = tx[t].read + d]}
    /\ tx' = [tx EXCEPT ![t].pc = "done", ![t].ok = TRUE]
    /\ UNCHANGED <<backend, pgCreators, jsVars, last, calls, fn>>

\* the store before the concurrent calls: one creator, one set, some of its
\* cards, and the count that create_card has kept for them
InitTx ==
    /\ backend = "postgresql"
    /\ pgCreators = {[creator_id |-> TxCreator, display_name |-> "Ada"]}
    /\ \E ids \in SUBSET CardIds :
           /\ pgCards = {TxCard(i) : i \in ids}
           /\ pgSets = {[set_id |-> TxSet, creator_id |-> TxCreator,
                         difficulty_level |-> "intermediate",
                         card_count |-> Cardinality(ids)]}
    /\ jsCreators = <<>> /\ jsSets = <<>> /\ jsCards = <<>>
    /\ last = NoCall
    /\ calls = 0
    /\ tx = [t \in Tx |-> Idle]
    /\ fn = NoFn

NextTx ==
    \/ \E t \in Tx, op \in TxOps, id \in CardIds : TxBegin(t, op, id)
    \/ \E t \in Tx : TxFlush(t)
    \/ \E t \in Tx : TxCommit(t)

SpecTx == InitTx /\ [][NextTx]_vars

\* ================================================================ properties
\* what the store holds, whichever implementation holds it
RowOf(rows, key, id) == CHOOSE r \in rows : r[key] = id
ItemOf(list, key, id) == list[FirstIndex(list, key, id)]
StoredIds(rows, list, key) ==
    IF backend = "postgresql" THEN {r[key] : r \in rows} ELSE IdsOf(list, key)
RecordOf(rows, list, key, id) ==
    IF backend = "postgresql" THEN RowOf(rows, key, id) ELSE ItemOf(list, key, id)
Records(rows, list) ==
    IF backend = "postgresql" THEN rows ELSE {list[i] : i \in 1..Len(list)}
StoreUnchanged == UNCHANGED <<pgVars, jsVars>>

\* C1: on the relational backend, in every state reachable from the empty
\* store by create / update / delete calls, each stored set's card_count is
\* the number of stored cards whose set_id is that set's id.
C1_CardCountIsNumberOfCards ==
    backend = "postgresql" =>
        \A s \in pgSets : s.card_count = Cardinality(CardsOfSet(pgCards, s.set_id))

\* the card_count of set sid moves by d in this step and no other count moves
CountsShift(sid, d) ==
    \A s \in StoredIds(pgSets, jsSets, "set_id") :
        /\ s \in StoredIds(pgSets', jsSets', "set_id")
        /\ RecordOf(pgSets', jsSets', "set_id", s).card_count =
               RecordOf(pgSets, jsSets, "set_id", s).card_count + (IF s = sid THEN d ELSE 0)

\* C2: a successful create_card raises the card_count of the card's set by
\* exactly 1, a successful delete_card lowers the card_count of the deleted
\* card's set by exactly 1, and no other set's card_count changes.
C2_CardCountMovesByOne ==
    [][ /\ \A d \in CardCreateData, u \in CardIds :
              (/\ \/ PostgreSQLContentData_create_card(d, u)
                  \/ JSONContentData_create_card(d, u)
               /\ last'.ok
               /\ d.set_id \in StoredIds(pgSets, jsSets, "set_id"))
              => CountsShift(d.set_id, 1)
        /\ \A d \in MainCardCreateData :
              (create_content_card(d) /\ last'.ok) => CountsShift(d.set_id, 1)
        /\ \A id \in CardIds :
              (/\ \/ PostgreSQLContentData_delete_card(id)
                  \/ JSONContentData_delete_card(id)
               /\ last'.ok
               /\ RecordOf(pgCards, jsCards, "card_id", id).set_id
                      \in StoredIds(pgSets, jsSets, "set_id"))
              => CountsShift(RecordOf(pgCards, jsCards, "card_id", id).set_id, -1)
      ]_vars

\* C3: once every one of the concurrent create_card / delete_card
\* transactions on the set has committed, the set's card_count is the number
\* of cards that reference the set.
C3_NoLostCountUpdate ==
    (\A t \in Tx : tx[t].pc = "done" /\ tx[t].ok) =>
        SetRow(TxSet).card_count = Cardinality(CardsOfSet(pgCards, TxSet))

C5_DeleteCreatorCascades ==
    [][ \A id \in CreatorIds :
          (/\ \/ PostgreSQLCreatorData_delete_creator(id)
              \/ JSONCreatorData_delete_creator(id)
           /\ last'.ok)
          => LET owned == {r.set_id : r \in {x \in Records(pgSets, jsSets) :
                                                 x.creator_id = id}}
             IN /\ \A r \in Records(pgSets', jsSets') : r.creator_id # id
                /\ \A c \in Records(pgCards', jsCards') :
                       c.creator_id # id /\ c.set_id \notin owned
      ]_vars

\* C6: create_set naming a creator that is not stored fails, create_card
\* naming a set or a creator that is not stored fails, and the failing call
\* stores nothing and changes no card_count.
C6_MissingReferenceFails ==
    [][ /\ \A d \in SetCreateData, u \in SetIds :
              (/\ \/ PostgreSQLContentSetData_create_set(d, u)
                  \/ JSONContentSetData_create_set(d, u)
               /\ d.creator_id \notin StoredIds(pgCreators, jsCreators, "creator_id"))
              => ~last'.ok /\ StoreUnchanged
        /\ \A d \in CardCreateData, u \in CardIds :
              (/\ \/ PostgreSQLContentData_create_card(d, u)
                  \/ JSONContentData_create_card(d, u)
               /\ \/ d.set_id \notin StoredIds(pgSets, jsSets, "set_id")
                  \/ d.creator_id \notin StoredIds(pgCreators, jsCreators, "creator_id"))
              => ~last'.ok /\ StoreUnchanged
      ]_vars

\* C7: an update of a stored record sets the fields the payload supplies,
\* keeps every field the payload omits, and keeps the record's id whatever
\* the payload says.  (update_creator of both stores, and the PUT handler of
\* sets, whose payload is the request body.)
C7_UpdateChangesSuppliedFieldsOnly ==
    [][ /\ \A id \in CreatorIds, u \in CreatorDicts :
              (/\ \/ PostgreSQLCreatorData_update_creator(id, u)
                  \/ JSONCreatorData_update_creator(id, u)
               /\ last'.ok)
              => LET old == RecordOf(pgCreators, jsCreators, "creator_id", id)
                     new == RecordOf(pgCreators', jsCreators', "creator_id", id)
                 IN /\ id \in StoredIds(pgCreators', jsCreators', "creator_id")
                    /\ new.creator_id = id
                    /\ new.display_name = Get(u, "display_name", old.display_name)
                    /\ Cardinality(Records(pgCreators', jsCreators')) =
                           Cardinality(Records(pgCreators, jsCreators))
        /\ \A id \in SetIds, b \in SetCreateBodies :
              (api_server_update_set(id, b) /\ last'.ok)
              => LET old == RowOf(pgSets, "set_id", id)
                     new == RowOf(pgSets', "set_id", id)
                 IN /\ HasSet(pgSets', id)
                    /\ new.creator_id = Get(b, "creator_id", old.creator_id)
                    /\ new.difficulty_level = Get(b, "difficulty_level", old.difficulty_level)
                    /\ new.card_count = old.card_count
      ]_vars

\* exactly one record with this id leaves the table / the list, and every
\* other record stays (in its place)
RemovedOneRow(before, after, key, id) ==
    \E r \in before : r[key] = id /\ after = before \ {r}
RemovedOneItem(before, after, key, id) ==
    \E i \in 1..Len(before) :
        /\ before[i][key] = id
        /\ after = [j \in 1..(Len(before) - 1) |->
                        IF j < i THEN before[j] ELSE before[j + 1]]

\* what C8 asks of a call on one entity type
MissingOrDeleted(gets, updates, deletes, key, rows, rowsAfter, list, listAfter) ==
    last'.op \in gets \cup updates \cup deletes =>
        IF last'.id \notin StoredIds(rows, list, key)
        THEN ~last'.ok /\ StoreUnchanged
        ELSE last'.op \in deletes =>
                 /\ last'.ok
                 /\ IF backend = "postgresql"
                    THEN RemovedOneRow(rows, rowsAfter, key, last'.id)
                    ELSE RemovedOneItem(list, listAfter, key, last'.id)

\* C8: for every entity type, get / update / delete on an id that is not
\* stored reports not-found / fails / returns false and leaves every stored
\* record as it was; delete on a stored id returns true and removes exactly
\* that record from the records of its type.
C8_MissingIdAndDelete ==
    [][ /\ MissingOrDeleted({"get_creator"}, {"update_creator"}, {"delete_creator"},
                            "creator_id", pgCreators, pgCreators', jsCreators, jsCreators')
        /\ MissingOrDeleted({"get_set"}, {"update_set"}, {"delete_set"},
                            "set_id", pgSets, pgSets', jsSets, jsSets')
        /\ MissingOrDeleted({"get_card"}, {"update_card"}, {"delete_card"},
                            "card_id", pgCards, pgCards', jsCards, jsCards')
      ]_vars

\* a delete_card on the file-backed store returned true and another card is
\* still stored
C8_Witness ==
    /\ backend = "json"
    /\ last.op = "delete_card" /\ last.ok
    /\ Len(jsCards) = 1

\* C9: in every reachable state no two stored records of one entity type
\* have the same primary key.
C9_PrimaryKeysUnique ==
    /\ \A r1, r2 \in pgCreators : r1.creator_id = r2.creator_id => r1 = r2
    /\ \A r1, r2 \in pgSets : r1.set_id = r2.set_id => r1 = r2
    /\ \A r1, r2 \in pgCards : r1.card_id = r2.card_id => r1 = r2
    /\ \A i, j \in 1..Len(jsCreators) :
           jsCreators[i].creator_id = jsCreators[j].creator_id => i = j
    /\ \A i, j \in 1..Len(jsSets) : jsSets[i].set_id = jsSets[j].set_id => i = j
    /\ \A i, j \in 1..Len(jsCards) : jsCards[i].card_id = jsCards[j].card_id => i = j

\* C10: after delete_set(id) returns true the store holds no card whose
\* set_id is id.
C10_DeleteSetCascades ==
    (last.op = "delete_set" /\ last.ok) =>
        \A c \in Records(pgCards, jsCards) : c.set_id # last.id

\* ============================================================= both stores
\* The same call is made on the relational store and then on the file-backed
\* store (data_interfaces.py: both implement the same interfaces), so that
\* what the two return and hold can be compared.  fn holds the call in hand:
\* its name, the id it is made with, its payload, the number of calls made
\* before it, and what the relational store answered.
WithId(dicts, key) == {d \in dicts : Has(d, key)}

ChooseCall ==
    /\ backend = "postgresql" /\ fn = NoFn /\ calls < MaxCalls
    /\ \/ \E d \in WithId(CreatorCreateData, "creator_id") :
              fn' = [op |-> "create_creator", id |-> d.creator_id, d |-> d, at |-> calls]
       \/ \E id \in CreatorIds, op \in {"get_creator", "delete_creator"} :
              fn' = [op |-> op, id |-> id, d |-> NoFn, at |-> calls]
       \/ \E id \in CreatorIds, d \in CreatorDicts :
              fn' = [op |-> "update_creator", id |-> id, d |-> d, at |-> calls]
       \/ \E d \in WithId(SetCreateData \cap JSONSetDicts, "set_id") :
              fn' = [op |-> "create_set", id |-> d.set_id, d |-> d, at |-> calls]
       \/ \E id \in SetIds, op \in {"get_set", "delete_set"} :
              fn' = [op |-> op, id |-> id, d |-> NoFn, at |-> calls]
       \/ \E id \in SetIds, d \in JSONSetDicts :
              fn' = [op |-> "update_set", id |-> id, d |-> d, at |-> calls]
       \/ \E d \in WithId(CardCreateData \cap JSONCardDicts, "card_id") :
              fn' = [op |-> "create_card", id |-> d.card_id, d |-> d, at |-> calls]
       \/ \E id \in CardIds, op \in {"get_card", "delete_card"} :
              fn' = [op |-> op, id |-> id, d |-> NoFn, at |-> calls]
       \/ \E id \in CardIds, d \in JSONCardDicts :
              fn' = [op |-> "update_card", id |-> id, d |-> d, at |-> calls]
    /\ UNCHANGED <<backend, pgVars, jsVars, last, calls, tx>>

\* the call in hand has not been made on the current store yet
CallPending(op) == fn # NoFn /\ fn.op = op /\ calls = fn.at

CallRelational ==
    \/ CallPending("create_creator") /\ PostgreSQLCreatorData_create_creator(fn.d, fn.id)
    \/ CallPending("get_creator") /\ PostgreSQLCreatorData_get_creator(fn.id)
    \/ CallPending("update_creator") /\ PostgreSQLCreatorData_update_creator(fn.id, fn.d)
    \/ CallPending("delete_creator") /\ PostgreSQLCreatorData_delete_creator(fn.id)
    \/ CallPending("create_set") /\ PostgreSQLContentSetData_create_set(fn.d, fn.id)
    \/ CallPending("get_set") /\ PostgreSQLContentSetData_get_set(fn.id)
    \/ CallPending("update_set") /\ PostgreSQLContentSetData_update_set(fn.id, fn.d)
    \/ CallPending("delete_set") /\ PostgreSQLContentSetData_delete_set(fn.id)
    \/ CallPending("create_card") /\ PostgreSQLContentData_create_card(fn.d, fn.id)
    \/ CallPending("get_card") /\ PostgreSQLContentData_get_card(fn.id)
    \/ CallPending("update_card") /\ PostgreSQLContentData_update_card(fn.id, fn.d)
    \/ CallPending("delete_card") /\ PostgreSQLContentData_delete_card(fn.id)

\* the relational store has answered: keep the answer, turn to the files
TurnToFiles ==
    /\ backend = "postgresql" /\ fn # NoFn /\ calls = fn.at + 1
    /\ backend' = "json"
    /\ calls' = fn.at
    /\ fn' = [op |-> fn.op, id |-> fn.id, d |-> fn.d, at |-> fn.at, relational |-> last]
    /\ UNCHANGED <<pgVars, jsVars, last, tx>>

CallFiles ==
    \/ CallPending("create_creator") /\ JSONCreatorData_create_creator(fn.d, fn.id)
    \/ CallPending("get_creator") /\ JSONCreatorData_get_creator(fn.id)
    \/ CallPending("update_creator") /\ JSONCreatorData_update_creator(fn.id, fn.d)
    \/ CallPending("delete_creator") /\ JSONCreatorData_delete_creator(fn.id)
    \/ CallPending("create_set") /\ JSONContentSetData_create_set(fn.d, fn.id)
    \/ CallPending("get_set") /\ JSONContentSetData_get_set(fn.id)
    \/ CallPending("update_set") /\ JSONContentSetData_update_set(fn.id, fn.d)
    \/ CallPending("delete_set") /\ JSONContentSetData_delete_set(fn.id)
    \/ CallPending("create_card") /\ JSONContentData_create_card(fn.d, fn.id)
    \/ CallPending("get_card") /\ JSONContentData_get_card(fn.id)
    \/ CallPending("update_card") /\ JSONContentData_update_card(fn.id, fn.d)
    \/ CallPending("delete_card") /\ JSONContentData_delete_card(fn.id)

\* both stores have answered the call in hand
BothAnswered == backend = "json" /\ fn # NoFn /\ calls = fn.at + 1

NextCall ==
    /\ BothAnswered
    /\ backend' = "postgresql"
    /\ fn' = NoFn
    /\ UNCHANGED <<pgVars, jsVars, last, calls, tx>>

InitBoth == Init /\ backend = "postgresql"

NextBoth == ChooseCall \/ CallRelational \/ TurnToFiles \/ CallFiles \/ NextCall

SpecBoth == InitBoth /\ [][NextBoth]_vars

\* C11: every call returns the same outcome on the relational and on the
\* file-backed store (found or not-found, success or failure), and after it
\* both hold the same records.
C11_StoresAgree ==
    BothAnswered =>
        /\ last.ok = fn.relational.ok
        /\ {r.creator_id : r \in pgCreators} = IdsOf(jsCreators, "creator_id")
        /\ {r.set_id : r \in pgSets} = IdsOf(jsSets, "set_id")
        /\ {r.card_id : r \in pgCards} = IdsOf(jsCards, "card_id")
        /\ Len(jsCreators) = Cardinality(pgCreators)
        /\ Len(jsSets) = Cardinality(pgSets)
        /\ Len(jsCards) = Cardinality(pgCards)

\* ================================================================== export
\* A JSON document is modelled by its top-level shape ("array" / "object"),
\* the keys of a top-level object, and the records it lists.  The field
\* exported_at is a key of the document; its value (a timestamp) is not
\* modelled.

\* every order in which a query without ORDER BY may return the rows
Orderings(rows) ==
    {q \in [1..Cardinality(rows) -> rows] :
        \A i, j \in 1..Cardinality(rows) : q[i] = q[j] => i = j}

\* JSON*Data.export_to_json: dumps the loaded list, returns data / count
JSON_export_to_json(records) ==
    [file |-> [shape |-> "array", keys |-> {}, records |-> records],
     result |-> [keys |-> {"data", "count", "exported_at"},
                 data |-> records, count |-> Len(records)]]

\* PostgreSQL*Data.export_to_json: dumps and returns export_data, whose list
\* is under the key name ("creators", "content_cards", "content_sets")
PostgreSQL_export_to_json(name, records) ==
    [file |-> [shape |-> "object", keys |-> {name, "exported_at", "total_count"},
               records |-> records],
     result |-> [keys |-> {name, "exported_at", "total_count"},
                 records |-> records, total_count |-> Len(records)]]

\* len(result.get("data", []))
LenOfData(result) == IF "data" \in result.keys THEN Len(result.data) ELSE 0

\* what str(e) of the exception of a failed export says: an OSError raised
\* by open() carries the path of the file, other errors (a full disk, a value
\* that does not serialise, a database error) carry no path
Causes == {"path", "no_path"}
ExportFiles == <<"creators", "cards", "sets", "metadata">>
NoFailure == Len(ExportFiles) + 1

\* DataManager.export_all_to_json under the handler export_all_data of
\* api_server.py.  failAt is the position in ExportFiles of the file whose
\* writing raises (NoFailure: none does); creators / cards / sets are the
\* lists the three list calls return.
export_all_data(creators, cards, sets, failAt, cause) ==
    LET creator_result ==
            IF backend = "json" THEN JSON_export_to_json(creators)
            ELSE PostgreSQL_export_to_json("creators", creators)
        cards_result ==
            IF backend = "json" THEN JSON_export_to_json(cards)
            ELSE PostgreSQL_export_to_json("content_cards", cards)
        sets_result ==
            IF backend = "json" THEN JSON_export_to_json(sets)
            ELSE PostgreSQL_export_to_json("content_sets", sets)
        metadata == [total_creators |-> LenOfData(creator_result.result),
                     total_cards |-> LenOfData(cards_result.result),
                     total_sets |-> LenOfData(sets_result.result)]
    IN /\ fn = NoFn
       /\ fn' = [op |-> "export_all_data",
                 written |-> {ExportFiles[i] : i \in 1..(failAt - 1)},
                 creators |-> creator_result.file,
                 cards |-> cards_result.file,
                 sets |-> sets_result.file,
                 metadata |-> metadata,
                 failed |-> IF failAt = NoFailure THEN "-" ELSE ExportFiles[failAt],
                 response |->
                     IF failAt = NoFailure
                     THEN [status |-> "success", names |-> "-"]
                     ELSE \* HTTPException(500, f"Export failed: {str(e)}")
                          [status |-> "500",
                           names |-> IF cause = "path" THEN ExportFiles[failAt] ELSE "-"]]
       /\ UNCHANGED <<backend, pgVars, jsVars, last, calls, tx>>

\* export_to_json of the creators of both implementations, side by side
export_to_json_both(creators) ==
    /\ fn = NoFn
    /\ fn' = [op |-> "export_to_json",
              relational |-> PostgreSQL_export_to_json("creators", creators).file,
              files |-> JSON_export_to_json(jsCreators).file]
    /\ UNCHANGED <<backend, pgVars, jsVars, last, calls, tx>>

\* the list calls behind the exports
ListedCreators == IF backend = "json" THEN {jsCreators} ELSE Orderings(pgCreators)
ListedSets == IF backend = "json" THEN {jsSets} ELSE Orderings(pgSets)
\* list_cards() orders by order_index; cards of equal order_index in any order
ListedCards ==
    IF backend = "json" THEN {jsCards}
    ELSE {q \in Orderings(pgCards) :
             \A i, j \in 1..Len(q) : i < j => q[i].order_index <= q[j].order_index}

\* the stores the exports are taken from: both hold the same records
ExportCreatorRows ==
    {[creator_id |-> "c1", display_name |-> "Ada"], [creator_id |-> "c2", display_name |-> "Bob"]}
ExportSetRows ==
    {[set_id |-> "s1", creator_id |-> "c1", difficulty_level |-> "intermediate", card_count |-> 1],
     [set_id |-> "s2", creator_id |-> "c1", difficulty_level |-> "advanced", card_count |-> 0]}
ExportCardRows ==
    {[card_id |-> "s1_card_001", set_id |-> "s1", creator_id |-> "c1", order_index |-> 1]}

\* Creator.to_dict / ContentSet.to_dict / ContentCard.to_dict: every column
RowsAsDicts(q, K) == [i \in 1..Len(q) |-> [k \in {"keys"} \cup K |->
                                              IF k = "keys" THEN K ELSE q[i][k]]]

InitExport ==
    /\ backend \in {"postgresql", "json"}
    /\ pgCreators \in SUBSET ExportCreatorRows
    /\ pgSets \in {S \in SUBSET ExportSetRows :
                      \A r \in S : HasCreator(pgCreators, r.creator_id)}
    /\ pgCards \in {S \in SUBSET ExportCardRows : \A r \in S : HasSet(pgSets, r.set_id)}
    /\ jsCreators \in {RowsAsDicts(q, CreatorKeys) : q \in Orderings(pgCreators)}
    /\ jsSets \in {RowsAsDicts(q, SetKeys) : q \in Orderings(pgSets)}
    /\ jsCards \in {RowsAsDicts(q, CardKeys) : q \in Orderings(pgCards)}
    /\ last = NoCall
    /\ calls = 0
    /\ tx = [t \in Tx |-> Idle]
    /\ fn = NoFn

NextExport ==
    \/ \E creators \in ListedCreators, cards \in ListedCards, sets \in ListedSets,
          failAt \in 1..NoFailure, cause \in Causes :
           export_all_data(creators, cards, sets, failAt, cause)
    \/ \E creators \in Orderings(pgCreators) : export_to_json_both(creators)

SpecExport == InitExport /\ [][NextExport]_vars

\* the ids of the records a document lists
DocIds(doc, key) == {doc.records[i][key] : i \in 1..Len(doc.records)}

\* C12: for the same stored records, the documents export_to_json of the two
\* implementations write have the same top-level shape and list the same
\* records.
C12_ExportsEqual ==
    fn.op = "export_to_json" =>
        /\ fn.relational.shape = fn.files.shape
        /\ fn.relational.keys = fn.files.keys
        /\ DocIds(fn.relational, "creator_id") = DocIds(fn.files, "creator_id")
        /\ Len(fn.relational.records) = Len(fn.files.records)

\* C13: the counts in the metadata of a successful export are the numbers of
\* creators, cards and sets the export wrote, whichever the implementation.
C13_MetadataCounts ==
    (fn.op = "export_all_data" /\ fn.response.status = "success") =>
        /\ fn.written = {"creators", "cards", "sets", "metadata"}
        /\ fn.metadata.total_creators = Len(fn.creators.records)
        /\ fn.metadata.total_cards = Len(fn.cards.records)
        /\ fn.metadata.total_sets = Len(fn.sets.records)

\* C14: an export is either a success with the three entity files and the
\* metadata file written, or a reported failure that names the entity whose
\* export failed.
C14_ExportAllOrNamedFailure ==
    fn.op = "export_all_data" =>
        IF fn.response.status = "success"
        THEN fn.written = {"creators", "cards", "sets", "metadata"}
        ELSE fn.response.names = fn.failed

\* ------------------------------------------------------- platform entries
\* api_server.py: class Platform and its two field validators.  A str is the
\* sequence of its characters.
MaxHandle == 2

\* the characters str.strip() removes
Whitespace == {" ", "\t", "\n", "\r", "\f"}

UpperCase == {"Y", "T", "W", "I", "C", "H", "K"}

\* str.lower(), one character
char_lower(c) ==
    CASE c = "Y" -> "y" [] c = "T" -> "t" [] c = "W" -> "w" [] c = "I" -> "i"
      [] c = "C" -> "c" [] c = "H" -> "h" [] c = "K" -> "k" [] OTHER -> c

str_lower(v) == [i \in 1..Len(v) |-> char_lower(v[i])]

RECURSIVE str_lstrip(_)
str_lstrip(v) ==
    IF v # <<>> /\ Head(v) \in Whitespace THEN str_lstrip(Tail(v)) ELSE v

RECURSIVE str_rstrip(_)
str_rstrip(v) ==
    IF v # <<>> /\ v[Len(v)] \in Whitespace
    THEN str_rstrip(SubSeq(v, 1, Len(v) - 1))
    ELSE v

str_strip(v) == str_rstrip(str_lstrip(v))

\* char in v
str_contains(v, char) == \E i \in 1..Len(v) : v[i] = char

forbidden_chars == {" ", "\t", "\n", "@", "#", "&", "?", "=", "+", "%"}

valid_platforms ==
    { <<"y", "o", "u", "t", "u", "b", "e">>,
      <<"i", "n", "s", "t", "a", "g", "r", "a", "m">>,
      <<"t", "i", "k", "t", "o", "k">>,
      <<"t", "w", "i", "t", "t", "e", "r">>,
      <<"l", "i", "n", "k", "e", "d", "i", "n">>,
      <<"w", "e", "b", "s", "i", "t", "e">>,
      <<"f", "a", "c", "e", "b", "o", "o", "k">>,
      <<"t", "w", "i", "t", "c", "h">> }

\* a validator returns the value it keeps, or raises ValueError
Raised == [raised |-> TRUE, value |-> <<>>]
Returned(v) == [raised |-> FALSE, value |-> v]

validate_handle_characters(v) ==
    IF v = <<>> \/ str_strip(v) = <<>> THEN Raised
    ELSE IF \E char \in forbidden_chars : str_contains(v, char) THEN Raised
    ELSE Returned(str_strip(v))

validate_supported_platform(v) ==
    LET v_lower == str_strip(str_lower(v))
    IN  IF v_lower \notin valid_platforms THEN Raised ELSE Returned(v_lower)

\* Platform(platform=..., handle=...): both field validators run; the model
\* is built when neither raises
Platform(entry) ==
    LET p == validate_supported_platform(entry.platform)
        h == validate_handle_characters(entry.handle)
    IN  [ok |-> ~p.raised /\ ~h.raised,
         value |-> [platform |-> p.value, handle |-> h.value]]

PlatformInputs ==
    { <<"y", "o", "u", "t", "u", "b", "e">>,
      <<"Y", "o", "u", "T", "u", "b", "e">>,
      <<" ", "t", "w", "i", "t", "c", "h", " ">>,
      <<"T", "W", "I", "T", "C", "H", "\n">>,
      <<"t", "i", "k", " ", "t", "o", "k">>,
      <<"s", "n", "a", "p", "c", "h", "a", "t">>,
      <<"w", "e", "b", "s", "i", "t", "e", "s">>,
      <<>> }

HandleChars == {"a", "_"} \cup Whitespace \cup forbidden_chars

HandleInputs == UNION {[1..n -> HandleChars] : n \in 0..MaxHandle}

Platform_validate ==
    /\ fn.op = "entry"
    /\ fn' = [op |-> "Platform", entry |-> fn.entry, result |-> Platform(fn.entry)]
    /\ UNCHANGED <<backend, pgCreators, pgSets, pgCards, jsCreators, jsSets, jsCards,
                   last, calls, tx>>

InitPlatform ==
    /\ backend = "postgresql"
    /\ pgCreators = {} /\ pgSets = {} /\ pgCards = {}
    /\ jsCreators = <<>> /\ jsSets = <<>> /\ jsCards = <<>>
    /\ last = NoCall
    /\ calls = 0
    /\ tx = [t \in Tx |-> Idle]
    /\ \E platform \in PlatformInputs, handle \in HandleInputs :
           fn = [op |-> "entry", entry |-> [platform |-> platform, handle |-> handle]]

NextPlatform == Platform_validate

SpecPlatform == InitPlatform /\ [][NextPlatform]_vars

\* what a platform entry has to be, in the words of the rule: a supported
\* name once trimmed and lowercased, and a handle that is not blank and has
\* no whitespace and no character that breaks a platform URL
UrlBreaking == {"@", "#", "&", "?", "=", "+", "%"}

Acceptable(entry) ==
    /\ str_lower(str_strip(entry.platform)) \in valid_platforms
    /\ str_strip(entry.handle) # <<>>
    /\ \A i \in 1..Len(entry.handle) : entry.handle[i] \notin Whitespace \cup UrlBreaking

\* C15: a platform entry is accepted exactly when its name, trimmed and
\* lowercased, is a supported platform and its handle is non-empty after
\* trimming and has no whitespace character and none of @ # & ? = + %; an
\* accepted entry keeps its platform name in lowercase.
C15_PlatformAcceptedExactlyWhenValid ==
    fn.op = "Platform" =>
        /\ fn.result.ok <=> Acceptable(fn.entry)
        /\ fn.result.ok =>
               /\ fn.result.value.platform \in valid_platforms
               /\ \A i \in 1..Len(fn.result.value.platform) :
                      fn.result.value.platform[i] \notin UpperCase

\* ------------------------------------------------------- creator requests
\* POST /api/creators and PUT /api/creators/{creator_id} of the three servers:
\* apps/builder/backend/api_server.py (Platform with the field validators),
\* builder/backend/api_server.py and builder/backend/main.py (Platform with
\* two plain str fields).  A creator row here carries its platforms column.
MaxRequests == 2

RequestEntries ==
    { [platform |-> <<"Y", "o", "u", "T", "u", "b", "e">>, handle |-> <<"a">>],
      [platform |-> <<"y", "o", "u", "t", "u", "b", "e">>, handle |-> <<"a", " ", "a">>],
      [platform |-> <<"s", "n", "a", "p", "c", "h", "a", "t">>, handle |-> <<"a">>],
      [platform |-> <<"t", "w", "i", "t", "c", "h">>, handle |-> <<>>] }

RequestPlatforms == UNION {[1..n -> RequestEntries] : n \in 0..MaxLen}

\* PostgreSQLCreatorData._prepare_platforms
RECURSIVE _prepare_platforms(_)
_prepare_platforms(platforms) ==
    IF platforms = <<>> THEN <<>>
    ELSE LET platform == Head(platforms)
             platform_name == str_lower(str_strip(platform.platform))
             handle == str_strip(platform.handle)
             rest == _prepare_platforms(Tail(platforms))
         IN  IF platform_name # <<>> /\ handle # <<>>
             THEN <<[platform |-> platform_name, handle |-> handle]>> \o rest
             ELSE rest

\* List[Platform] of the validating server: the parsed entries, or a 422
\* response when the validators of any entry raise
ParsedPlatforms(platforms) == [i \in 1..Len(platforms) |-> Platform(platforms[i]).value]
Unprocessable(platforms) == \E i \in 1..Len(platforms) : ~Platform(platforms[i]).ok

\* the request answered: its body, the response status and the creators
\* table as it was when the request came in
Answered(op, via, creator_id, platforms, status) ==
    /\ calls < MaxRequests
    /\ calls' = calls + 1
    /\ last' = [op |-> op, id |-> creator_id, ok |-> status = 200]
    /\ fn' = [op |-> op, via |-> via, creator_id |-> creator_id, platforms |-> platforms,
              status |-> status, before |-> pgCreators]
    /\ UNCHANGED <<backend, pgSets, pgCards, jsVars, tx>>

\* dm.creators.create_creator(creator.dict()) on the relational store; the
\* body has no creator_id, so the id is generated from a fresh uuid
StoreCreated(creator_id, name, platforms) ==
    pgCreators' = pgCreators \cup
        {[creator_id |-> creator_id, display_name |-> name, platforms |-> platforms]}

\* creator.platforms = ...; session.commit()
StoreUpdated(creator_id, platforms) ==
    pgCreators' = {IF r.creator_id = creator_id THEN [r EXCEPT !.platforms = platforms] ELSE r :
                      r \in pgCreators}

\* apps/builder/backend/api_server.py: create_creator
api_server_create_creator(name, platforms, uuid) ==
    /\ ~HasCreator(pgCreators, uuid)
    /\ IF Unprocessable(platforms)
       THEN /\ UNCHANGED pgCreators
            /\ Answered("create_creator", "apps/api_server", uuid, platforms, 422)
       ELSE /\ StoreCreated(uuid, name, _prepare_platforms(ParsedPlatforms(platforms)))
            /\ Answered("create_creator", "apps/api_server", uuid, platforms, 200)

\* apps/builder/backend/api_server.py: update_creator
api_server_update_creator(creator_id, platforms) ==
    IF Unprocessable(platforms)
    THEN /\ UNCHANGED pgCreators
         /\ Answered("update_creator", "apps/api_server", creator_id, platforms, 422)
    ELSE IF ~HasCreator(pgCreators, creator_id)
    THEN /\ UNCHANGED pgCreators
         /\ Answered("update_creator", "apps/api_server", creator_id, platforms, 404)
    ELSE /\ StoreUpdated(creator_id, _prepare_platforms(ParsedPlatforms(platforms)))
         /\ Answered("update_creator", "apps/api_server", creator_id, platforms, 200)

\* builder/backend/api_server.py: create_creator
builder_api_server_create_creator(name, platforms, uuid) ==
    /\ ~HasCreator(pgCreators, uuid)
    /\ StoreCreated(uuid, name, _prepare_platforms(platforms))
    /\ Answered("create_creator", "builder/api_server", uuid, platforms, 200)

\* builder/backend/api_server.py: update_creator
builder_api_server_update_creator(creator_id, platforms) ==
    IF ~HasCreator(pgCreators, creator_id)
    THEN /\ UNCHANGED pgCreators
         /\ Answered("update_creator", "builder/api_server", creator_id, platforms, 404)
    ELSE /\ StoreUpdated(creator_id, _prepare_platforms(platforms))
         /\ Answered("update_creator", "builder/api_server", creator_id, platforms, 200)

\* builder/backend/main.py: create_creator
main_create_creator(name, platforms, uuid) ==
    /\ ~HasCreator(pgCreators, uuid)
    /\ StoreCreated(uuid, name, platforms)
    /\ Answered("create_creator", "main", uuid, platforms, 200)

\* builder/backend/main.py: update_creator.  creator_data.dict() has turned
\* the entries into dicts, so p.platform raises AttributeError on the first
\* entry: rollback and 400.
main_update_creator(creator_id, platforms) ==
    IF ~HasCreator(pgCreators, creator_id)
    THEN /\ UNCHANGED pgCreators
         /\ Answered("update_creator", "main", creator_id, platforms, 404)
    ELSE IF platforms # <<>>
    THEN /\ UNCHANGED pgCreators
         /\ Answered("update_creator", "main", creator_id, platforms, 400)
    ELSE /\ StoreUpdated(creator_id, <<>>)
         /\ Answered("update_creator", "main", creator_id, platforms, 200)

InitRequest ==
    /\ backend = "postgresql"
    /\ pgCreators = {} /\ pgSets = {} /\ pgCards = {}
    /\ jsCreators = <<>> /\ jsSets = <<>> /\ jsCards = <<>>
    /\ last = NoCall
    /\ calls = 0
    /\ tx = [t \in Tx |-> Idle]
    /\ fn = NoFn

NextRequest ==
    \/ \E name \in Names, platforms \in RequestPlatforms, uuid \in CreatorIds :
           api_server_create_creator(name, platforms, uuid)
    \/ \E creator_id \in CreatorIds, platforms \in RequestPlatforms :
           api_server_update_creator(creator_id, platforms)
    \/ \E name \in Names, platforms \in RequestPlatforms, uuid \in CreatorIds :
           builder_api_server_create_creator(name, platforms, uuid)
    \/ \E creator_id \in CreatorIds, platforms \in RequestPlatforms :
           builder_api_server_update_creator(creator_id, platforms)
    \/ \E name \in Names, platforms \in RequestPlatforms, uuid \in CreatorIds :
           main_create_creator(name, platforms, uuid)
    \/ \E creator_id \in CreatorIds, platforms \in RequestPlatforms :
           main_update_creator(creator_id, platforms)

SpecRequest == InitRequest /\ [][NextRequest]_vars

\* C16: a creator create or update request with an invalid platform entry is
\* rejected as a whole and leaves the creators table as it was, whatever the
\* other entries of the request are.
C16_InvalidEntryRejectsRequest ==
    (/\ fn.op \in {"create_creator", "update_creator"}
     /\ \E i \in 1..Len(fn.platforms) : ~Acceptable(fn.platforms[i])) =>
        /\ fn.status # 200
        /\ pgCreators = fn.before

\* ------------------------------------------------------------ card order
\* the number of stored cards of set sid
CardsInSet(sid) ==
    IF backend = "postgresql"
    THEN Cardinality(CardsOfSet(pgCards, sid))
    ELSE Cardinality({i \in 1..Len(jsCards) : jsCards[i].set_id = sid})

\* C17: a card created without an order_index is stored with the number of
\* cards its set already holds plus one; a card created with an order_index
\* keeps it.
C17_OrderIndexAssigned ==
    [][ \A d \in CardCreateData, u \in CardIds :
          (/\ \/ PostgreSQLContentData_create_card(d, u)
              \/ JSONContentData_create_card(d, u)
           /\ last'.ok)
          => LET id == Get(d, "card_id", u)
                 new == IF backend = "postgresql"
                        THEN RowOf(pgCards', "card_id", id)
                        ELSE jsCards'[Len(jsCards')]
             IN /\ backend = "json" => Has(new, "order_index")
                /\ new.order_index = IF Has(d, "order_index")
                                     THEN d.order_index
                                     ELSE CardsInSet(d.set_id) + 1
      ]_vars

\* ================================================================ listings
\* list_cards and list_creators of both stores, and GET /api/cards of
\* main.py, on stores that hold the same records.  A call's keyword
\* arguments are a dict: an absent key is an argument left at its default.
MaxLimit == 2
MaxOffset == 2

ListCardRows ==
    {[card_id |-> "s1_card_001", set_id |-> "s1", creator_id |-> "c1", order_index |-> 2],
     [card_id |-> "s1_card_002", set_id |-> "s1", creator_id |-> "c1", order_index |-> 1],
     [card_id |-> "s2_card_001", set_id |-> "s2", creator_id |-> "c1", order_index |-> 1]}

ListCardArgs ==
    {[keys |-> K,
      creator_id |-> IF "creator_id" \in K THEN c ELSE NoId,
      set_id |-> IF "set_id" \in K THEN s ELSE NoId,
      limit |-> IF "limit" \in K THEN l ELSE 0] :
        K \in SUBSET {"creator_id", "set_id", "limit"},
        c \in CreatorIds, s \in SetIds, l \in 0..MaxLimit}

ListCreatorArgs ==
    {[keys |-> K,
      limit |-> IF "limit" \in K THEN l ELSE 0,
      offset |-> IF "offset" \in K THEN o ELSE 0,
      with_content_only |-> IF "with_content_only" \in K THEN w ELSE FALSE] :
        K \in SUBSET {"limit", "offset", "with_content_only"},
        l \in 0..MaxLimit, o \in 0..MaxOffset, w \in BOOLEAN}

\* list[:n] and list[n:]
Take(list, n) == SubSeq(list, 1, IF n < Len(list) THEN n ELSE Len(list))
Drop(list, n) == SubSeq(list, n + 1, Len(list))

\* [x for x in list if x.get(key) == value]
RECURSIVE Filtered(_, _, _)
Filtered(list, key, value) ==
    IF list = <<>> THEN <<>>
    ELSE IF Has(Head(list), key) /\ Head(list)[key] = value
         THEN <<Head(list)>> \o Filtered(Tail(list), key, value)
         ELSE Filtered(Tail(list), key, value)

\* ORDER BY order_index: rows of equal order_index come in any order
OrderedByIndex(rows) ==
    {q \in Orderings(rows) : \A i, j \in 1..Len(q) : i < j => q[i].order_index <= q[j].order_index}

\* the call returned result, or raised
Listed(op, args, ok, result) ==
    /\ fn' = [op |-> op, args |-> args, ok |-> ok, result |-> result]
    /\ UNCHANGED <<backend, pgVars, jsVars, last, calls, tx>>

\* PostgreSQLContentData.list_cards.  Query.order_by() on a query that has
\* LIMIT applied raises InvalidRequestError.
PostgreSQLContentData_list_cards(args) ==
    /\ backend = "postgresql"
    /\ LET query == {c \in pgCards :
                       /\ Has(args, "creator_id") => c.creator_id = args.creator_id
                       /\ Has(args, "set_id") => c.set_id = args.set_id}
       IN IF Has(args, "limit") /\ args.limit # 0
          THEN Listed("list_cards", args, FALSE, <<>>)
          ELSE \E cards \in OrderedByIndex(query) :
                   Listed("list_cards", args, TRUE, RowsAsDicts(cards, CardKeys))

\* JSONContentData.list_cards(creator_id, limit): no set_id parameter
\* (TypeError), no sort
JSONContentData_list_cards(args) ==
    /\ backend = "json"
    /\ IF Has(args, "set_id")
       THEN Listed("list_cards", args, FALSE, <<>>)
       ELSE LET cards == IF Has(args, "creator_id")
                         THEN Filtered(jsCards, "creator_id", args.creator_id)
                         ELSE jsCards
            IN Listed("list_cards", args, TRUE,
                      IF Has(args, "limit") /\ args.limit # 0
                      THEN Take(cards, args.limit) ELSE cards)

\* main.py GET /api/cards: set_id and creator_id are its only parameters
list_content_cards(args) ==
    /\ backend = "postgresql"
    /\ ~Has(args, "limit")
    /\ LET query == {c \in pgCards :
                       /\ Has(args, "set_id") => c.set_id = args.set_id
                       /\ Has(args, "creator_id") => c.creator_id = args.creator_id}
       IN \E cards \in OrderedByIndex(query) :
              Listed("list_content_cards", args, TRUE, RowsAsDicts(cards, CardKeys))

\* PostgreSQLCreatorData.list_creators: SELECT DISTINCT creators.* [JOIN
\* content_sets] LIMIT limit OFFSET offset, without ORDER BY
PostgreSQLCreatorData_list_creators(args) ==
    /\ backend = "postgresql"
    /\ LET query == IF args.with_content_only
                    THEN {c \in pgCreators : \E s \in pgSets : s.creator_id = c.creator_id}
                    ELSE pgCreators
       IN \E rows \in Orderings(query) :
              LET rest == Drop(rows, args.offset)
                  creators == IF args.limit # 0 THEN Take(rest, args.limit) ELSE rest
              IN Listed("list_creators", args, TRUE, RowsAsDicts(creators, CreatorKeys))

\* JSONCreatorData.list_creators(limit, offset): no with_content_only
\* parameter (TypeError)
JSONCreatorData_list_creators(args) ==
    /\ backend = "json"
    /\ IF Has(args, "with_content_only")
       THEN Listed("list_creators", args, FALSE, <<>>)
       ELSE Listed("list_creators", args, TRUE,
                   IF args.limit # 0
                   THEN Take(Drop(jsCreators, args.offset), args.limit)
                   ELSE Drop(jsCreators, args.offset))

InitList ==
    /\ backend \in {"postgresql", "json"}
    /\ pgCreators \in SUBSET ExportCreatorRows
    /\ pgSets \in {S \in SUBSET ExportSetRows :
                      \A r \in S : HasCreator(pgCreators, r.creator_id)}
    /\ pgCards \in {S \in SUBSET ListCardRows : \A r \in S : HasSet(pgSets, r.set_id)}
    /\ jsCreators \in {RowsAsDicts(q, CreatorKeys) : q \in Orderings(pgCreators)}
    /\ jsSets \in {RowsAsDicts(q, SetKeys) : q \in Orderings(pgSets)}
    /\ jsCards \in {RowsAsDicts(q, CardKeys) : q \in Orderings(pgCards)}
    /\ last = NoCall
    /\ calls = 0
    /\ tx = [t \in Tx |-> Idle]
    /\ fn = NoFn

NextList ==
    \/ \E args \in ListCardArgs : PostgreSQLContentData_list_cards(args)
    \/ \E args \in ListCardArgs : JSONContentData_list_cards(args)
    \/ \E args \in ListCardArgs : list_content_cards(args)
    \/ \E args \in ListCreatorArgs : PostgreSQLCreatorData_list_creators(args)
    \/ \E args \in ListCreatorArgs : JSONCreatorData_list_creators(args)

SpecList == InitList /\ [][NextList]_vars

\* the ids of the stored cards that match the filters of args
MatchingCards(args) ==
    {c.card_id : c \in {r \in Records(pgCards, jsCards) :
        /\ Has(args, "creator_id") => r.creator_id = args.creator_id
        /\ Has(args, "set_id") => r.set_id = args.set_id}}

OrderIndexOf(card_id) == RecordOf(pgCards, jsCards, "card_id", card_id).order_index

Smaller(a, b) == IF a < b THEN a ELSE b

\* C18: list_cards answers every combination of creator_id, set_id and limit
\* with the matching cards in ascending order_index, and with a limit with
\* the first limit of them in that order.
C18_ListCardsOrdered ==
    fn.op \in {"list_cards", "list_content_cards"} =>
        LET M == MatchingCards(fn.args)
            R == fn.result
            listed == {R[i].card_id : i \in 1..Len(R)}
        IN /\ fn.ok
           /\ listed \subseteq M
           /\ \A i, j \in 1..Len(R) : i < j =>
                  /\ R[i].card_id # R[j].card_id
                  /\ R[i].order_index <= R[j].order_index
           /\ Len(R) = IF Has(fn.args, "limit")
                       THEN Smaller(fn.args.limit, Cardinality(M))
                       ELSE Cardinality(M)
           /\ \A a \in listed, b \in M \ listed : OrderIndexOf(a) <= OrderIndexOf(b)

\* the ids of the stored creators that match the filter of args
MatchingCreators(args) ==
    {c.creator_id : c \in {r \in Records(pgCreators, jsCreators) :
        args.with_content_only =>
            \E s \in Records(pgSets, jsSets) : s.creator_id = r.creator_id}}

\* C19: list_creators returns creators that match the filter, each once,
\* and as many of them as are left after skipping offset, up to limit, for
\* every limit >= 0 and offset >= 0.
C19_ListCreatorsPaged ==
    fn.op = "list_creators" =>
        LET M == MatchingCreators(fn.args)
            R == fn.result
            left == IF fn.args.offset < Cardinality(M)
                    THEN Cardinality(M) - fn.args.offset ELSE 0
        IN /\ fn.ok
           /\ \A i \in 1..Len(R) : R[i].creator_id \in M
           /\ \A i, j \in 1..Len(R) : i < j => R[i].creator_id # R[j].creator_id
           /\ Len(R) = IF Has(fn.args, "limit") THEN Smaller(fn.args.limit, left) ELSE left

\* ============================================================ deduplication
\* migrate_json_to_db.py: deduplicate_sets.  A title is its first 50
\* characters and the rest; ids and titles are strings, so that the key
\* f"{creator_id}_{title_key}" is their concatenation.
MaxSets == 3

DedupCreatorIds == {"c1", "c1_t"}
TitlePrefixes == {"t_u", "u"}
TitleRests == {"", "x"}

DedupSets ==
    {[keys |-> {"set_id", "creator_id", "title"} \cup K,
      set_id |-> i,
      creator_id |-> c,
      title |-> [prefix |-> p, rest |-> r],
      card_count |-> IF "card_count" \in K THEN n ELSE 0] :
        K \in SUBSET {"card_count"}, i \in SetIds, c \in DedupCreatorIds,
        p \in TitlePrefixes, r \in TitleRests, n \in SuppliedCounts}

DedupInputs == UNION {[1..n -> DedupSets] : n \in 0..MaxSets}

\* seen_combinations: a dict from key to set
Seen(seen, key) == \E e \in seen : e.key = key
SeenAt(seen, key) == (CHOOSE e \in seen : e.key = key).value
SeenPut(seen, key, value) ==
    {e \in seen : e.key # key} \cup {[key |-> key, value |-> value]}

\* [s for s in unique_sets if s['set_id'] != set_id]
RECURSIVE WithoutSetId(_, _)
WithoutSetId(unique_sets, set_id) ==
    IF unique_sets = <<>> THEN <<>>
    ELSE IF Head(unique_sets).set_id # set_id
         THEN <<Head(unique_sets)>> \o WithoutSetId(Tail(unique_sets), set_id)
         ELSE WithoutSetId(Tail(unique_sets), set_id)

\* the loop of deduplicate_sets over the rest of sets_data
RECURSIVE deduplicate_loop(_, _, _)
deduplicate_loop(sets_data, seen_combinations, unique_sets) ==
    IF sets_data = <<>> THEN unique_sets
    ELSE LET content_set == Head(sets_data)
             creator_id == content_set.creator_id
             title_key == content_set.title.prefix
             key == creator_id \o "_" \o title_key
         IN  IF ~Seen(seen_combinations, key)
             THEN deduplicate_loop(Tail(sets_data),
                                   SeenPut(seen_combinations, key, content_set),
                                   Append(unique_sets, content_set))
             ELSE LET existing == SeenAt(seen_combinations, key)
                      current_cards == Get(content_set, "card_count", 0)
                      existing_cards == Get(existing, "card_count", 0)
                  IN  IF current_cards > existing_cards
                      THEN deduplicate_loop(
                               Tail(sets_data),
                               SeenPut(seen_combinations, key, content_set),
                               Append(WithoutSetId(unique_sets, existing.set_id), content_set))
                      ELSE deduplicate_loop(Tail(sets_data), seen_combinations, unique_sets)

deduplicate_sets(sets_data) == deduplicate_loop(sets_data, {}, <<>>)

Deduplicate ==
    /\ fn.op = "sets_data"
    /\ fn' = [op |-> "deduplicate_sets", sets_data |-> fn.sets_data,
              unique_sets |-> deduplicate_sets(fn.sets_data)]
    /\ UNCHANGED <<backend, pgVars, jsVars, last, calls, tx>>

InitDedup ==
    /\ backend = "json"
    /\ pgCreators = {} /\ pgSets = {} /\ pgCards = {}
    /\ jsCreators = <<>> /\ jsSets = <<>> /\ jsCards = <<>>
    /\ last = NoCall
    /\ calls = 0
    /\ tx = [t \in Tx |-> Idle]
    /\ \E sets_data \in DedupInputs : fn = [op |-> "sets_data", sets_data |-> sets_data]

NextDedup == Deduplicate

SpecDedup == InitDedup /\ [][NextDedup]_vars

\* the group of a set: its creator and the first 50 characters of its title
GroupOf(s) == <<s.creator_id, s.title.prefix>>

\* the place in the input of the set to keep of group g: the first of those
\* with the highest card_count of the group
KeptAt(sets_data, g) ==
    CHOOSE i \in 1..Len(sets_data) :
        /\ GroupOf(sets_data[i]) = g
        /\ \A j \in 1..Len(sets_data) : GroupOf(sets_data[j]) = g =>
               \/ Get(sets_data[j], "card_count", 0) < Get(sets_data[i], "card_count", 0)
               \/ /\ Get(sets_data[j], "card_count", 0) = Get(sets_data[i], "card_count", 0)
                  /\ i <= j

\* C20: deduplicate_sets returns exactly one set of each group of its input,
\* the one with the highest card_count of the group (a missing card_count
\* counts as 0), and of several such the first in input order.
C20_DeduplicateKeepsBest ==
    fn.op = "deduplicate_sets" =>
        LET I == fn.sets_data
            U == fn.unique_sets
        IN \A i \in 1..Len(I) :
               LET g == GroupOf(I[i])
               IN /\ Cardinality({j \in 1..Len(U) : GroupOf(U[j]) = g}) = 1
                  /\ \E j \in 1..Len(U) : U[j] = I[KeptAt(I, g)]

\* C21: deduplicate_sets never groups sets of different creators: a set whose
\* creator_id no other set of the input has is kept, whatever the other
\* sets are.
C21_OtherCreatorsNeverDiscard ==
    fn.op = "deduplicate_sets" =>
        \A i \in 1..Len(fn.sets_data) :
            (\A j \in 1..Len(fn.sets_data) :
                 j # i => fn.sets_data[j].creator_id # fn.sets_data[i].creator_id)
            => \E k \in 1..Len(fn.unique_sets) : fn.unique_sets[k] = fn.sets_data[i]

\* ====================================================== creator platforms
\* migrate_json_to_db.py: convert_creator_platforms.  A handle is the
\* sequence of its characters; social_links is a dict, a list of its items
\* in insertion order with distinct keys.
MaxLinks == 2

LegacyChars == {"@", "a", "b"}
LegacyHandles == UNION {[1..n -> LegacyChars] : n \in 0..MaxHandle}
LegacyPlatforms == {"", "youtube"}
LinkPlatforms == {"instagram", "twitter"}

SocialLinks ==
    {q \in UNION {[1..n -> [platform : LinkPlatforms, handle : LegacyHandles]] :
                     n \in 0..MaxLinks} :
        \A i, j \in 1..Len(q) : q[i].platform = q[j].platform => i = j}

LegacyCreators ==
    {[keys |-> K,
      platform |-> IF "platform" \in K THEN p ELSE NoStr,
      platform_handle |-> IF "platform_handle" \in K THEN h ELSE <<>>,
      social_links |-> IF "social_links" \in K THEN s ELSE <<>>] :
        K \in SUBSET {"platform", "platform_handle", "social_links"},
        p \in LegacyPlatforms, h \in LegacyHandles, s \in SocialLinks}

\* handle.replace('@', ''): every '@' goes
RECURSIVE str_replace_at(_)
str_replace_at(handle) ==
    IF handle = <<>> THEN <<>>
    ELSE IF Head(handle) = "@" THEN str_replace_at(Tail(handle))
         ELSE <<Head(handle)>> \o str_replace_at(Tail(handle))

\* the loop over social_links.items()
RECURSIVE convert_social_links(_, _)
convert_social_links(creator_data, items) ==
    IF items = <<>> THEN <<>>
    ELSE LET platform == Head(items).platform
             handle == Head(items).handle
             rest == convert_social_links(creator_data, Tail(items))
         IN  IF /\ handle # <<>>
                /\ ~(Has(creator_data, "platform_handle")
                     /\ handle = creator_data.platform_handle)
             THEN <<[platform |-> platform, handle |-> str_replace_at(handle)]>> \o rest
             ELSE rest

convert_creator_platforms(creator_data) ==
    LET legacy == IF /\ Has(creator_data, "platform") /\ creator_data.platform # NoStr
                     /\ Has(creator_data, "platform_handle")
                     /\ creator_data.platform_handle # <<>>
                  THEN <<[platform |-> creator_data.platform,
                          handle |-> creator_data.platform_handle]>>
                  ELSE <<>>
    IN  legacy \o convert_social_links(creator_data, Get(creator_data, "social_links", <<>>))

Convert ==
    /\ fn.op = "creator_data"
    /\ fn' = [op |-> "convert_creator_platforms", creator_data |-> fn.creator_data,
              platforms |-> convert_creator_platforms(fn.creator_data)]
    /\ UNCHANGED <<backend, pgVars, jsVars, last, calls, tx>>

InitConvert ==
    /\ backend = "json"
    /\ pgCreators = {} /\ pgSets = {} /\ pgCards = {}
    /\ jsCreators = <<>> /\ jsSets = <<>> /\ jsCards = <<>>
    /\ last = NoCall
    /\ calls = 0
    /\ tx = [t \in Tx |-> Idle]
    /\ \E creator_data \in LegacyCreators :
           fn = [op |-> "creator_data", creator_data |-> creator_data]

NextConvert == Convert

SpecConvert == InitConvert /\ [][NextConvert]_vars

\* the legacy pair is present: a platform and a platform_handle, neither empty
LegacyPair(d) ==
    /\ Has(d, "platform") /\ d.platform # NoStr
    /\ Has(d, "platform_handle") /\ d.platform_handle # <<>>

\* the social links with a non-empty value, in order
RECURSIVE NonEmptyLinks(_)
NonEmptyLinks(items) ==
    IF items = <<>> THEN <<>>
    ELSE IF Head(items).handle # <<>>
         THEN <<Head(items)>> \o NonEmptyLinks(Tail(items))
         ELSE NonEmptyLinks(Tail(items))

\* q is p with some items left out
IsSubsequence(q, p) ==
    \E f \in [1..Len(q) -> 1..Len(p)] :
        /\ \A i \in 1..Len(q) : q[i] = p[f[i]]
        /\ \A i, j \in 1..Len(q) : i < j => f[i] < f[j]

\* C24: the platforms list starts with the legacy pair when both fields are
\* present, goes on with the non-empty social links in their order (all of
\* them when no legacy pair was recorded), and no entry after the first has
\* the recorded legacy handle.
C24_LegacyFirstAndOnce ==
    fn.op = "convert_creator_platforms" =>
        LET d == fn.creator_data
            P == fn.platforms
            links == NonEmptyLinks(d.social_links)
            names == [i \in 1..Len(links) |-> links[i].platform]
        IN IF LegacyPair(d)
           THEN /\ Len(P) >= 1
                /\ P[1].platform = d.platform
                /\ IsSubsequence([i \in 1..(Len(P) - 1) |-> P[i + 1].platform], names)
                /\ \A i \in 2..Len(P) : P[i].handle # P[1].handle
           ELSE [i \in 1..Len(P) |-> P[i].platform] = names

\* a handle without its leading '@'
WithoutLeadingAt(handle) ==
    IF handle # <<>> /\ Head(handle) = "@" THEN Tail(handle) ELSE handle

\* the handle of the social link of this platform
LinkHandle(d, platform) ==
    (CHOOSE l \in {d.social_links[i] : i \in 1..Len(d.social_links)} :
         l.platform = platform).handle

\* C25: every handle of the platforms list is its source handle without the
\* leading '@' and otherwise unchanged, the legacy handle included.
C25_LeadingAtStripped ==
    fn.op = "convert_creator_platforms" =>
        LET d == fn.creator_data
            P == fn.platforms
        IN \A i \in 1..Len(P) :
               P[i].handle = WithoutLeadingAt(IF LegacyPair(d) /\ i = 1
                                              THEN d.platform_handle
                                              ELSE LinkHandle(d, P[i].platform))

\* ================================================================ migration
\* migrate_json_to_db.py: migrate_data, one run of the script on the legacy
\* lists load_json_data() returns and the database as it stands.
MaxLegacy == 2

\* database/models.py: the attributes of class Creator, and the keyword
\* arguments migrate_data gives its constructor.  The declarative
\* constructor raises TypeError for a keyword that is no attribute.
CreatorAttributes ==
    {"creator_id", "display_name", "platforms", "avatar_url", "banner_url", "description",
     "categories", "follower_count", "verified", "social_links", "expertise_areas",
     "content_style", "created_at", "updated_at", "content_sets", "content_cards"}
MigrateCreatorKwargs ==
    {"creator_id", "display_name", "platforms", "description", "categories",
     "follower_count", "verified", "social_links", "expertise_areas", "content_style",
     "platform", "platform_handle"}
CreatorConstructed == MigrateCreatorKwargs \subseteq CreatorAttributes

LegacyCreatorLists ==
    {q \in UNION {[1..n -> {CreatorDict(CreatorKeys, i, "Ada") : i \in CreatorIds}] :
                     n \in 0..MaxLegacy} :
        \A i, j \in 1..Len(q) : q[i].creator_id = q[j].creator_id => i = j}

LegacySets ==
    {[keys |-> {"set_id", "creator_id", "title"} \cup K,
      set_id |-> i,
      creator_id |-> c,
      title |-> [prefix |-> "t", rest |-> ""],
      card_count |-> IF "card_count" \in K THEN MaxCount ELSE 0] :
        K \in SUBSET {"card_count"}, i \in SetIds, c \in CreatorIds}
LegacySetLists == UNION {[1..n -> LegacySets] : n \in 0..MaxLegacy}

LegacyCards ==
    {[card_id |-> i, set_id |-> s, creator_id |-> c, order_index |-> 1] :
        i \in CardIds, s \in SetIds, c \in CreatorIds}
LegacyCardLists == UNION {[1..n -> LegacyCards] : n \in 0..MaxLegacy}

\* the rows a list of records becomes once added to the session
AsCreatorRows(list) ==
    {[creator_id |-> list[i].creator_id, display_name |-> list[i].display_name] :
        i \in 1..Len(list)}
AsSetRows(list) ==
    {[set_id |-> list[i].set_id, creator_id |-> list[i].creator_id,
      difficulty_level |-> "intermediate",
      card_count |-> Get(list[i], "card_count", 0)] : i \in 1..Len(list)}

\* the cards whose set_id is in existing_set_ids, in order
RECURSIVE CardsOfExistingSets(_, _)
CardsOfExistingSets(cards_data, existing_set_ids) ==
    IF cards_data = <<>> THEN <<>>
    ELSE IF Head(cards_data).set_id \in existing_set_ids
         THEN <<Head(cards_data)>> \o CardsOfExistingSets(Tail(cards_data), existing_set_ids)
         ELSE CardsOfExistingSets(Tail(cards_data), existing_set_ids)

\* session.commit() of added rows fails on a repeated primary key
DistinctIds(list, key) ==
    \A i, j \in 1..Len(list) : list[i][key] = list[j][key] => i = j

\* the run ended: at step "done", or with the exception of a step and the
\* database as the last commit left it
Migrated(step, creators, sets, cards, creators_data, sets_data, cards_data, unique_sets) ==
    /\ pgCreators' = creators /\ pgSets' = sets /\ pgCards' = cards
    /\ fn' = [op |-> "migrate_data", ok |-> step = "done", step |-> step,
              before |-> [creators |-> pgCreators, sets |-> pgSets, cards |-> pgCards],
              creators_data |-> creators_data, sets_data |-> sets_data,
              cards_data |-> cards_data, unique_sets |-> unique_sets]
    /\ UNCHANGED <<backend, jsVars, last, calls, tx>>

migrate_data(creators_data, sets_data, cards_data) ==
    /\ backend = "postgresql"
    /\ fn = NoFn
    /\ LET unique_sets == deduplicate_sets(sets_data)
           existing_set_ids == {unique_sets[i].set_id : i \in 1..Len(unique_sets)}
           creators == AsCreatorRows(creators_data)
           sets == AsSetRows(unique_sets)
           migrated == CardsOfExistingSets(cards_data, existing_set_ids)
           cards == {migrated[i] : i \in 1..Len(migrated)}
           counted == {[s EXCEPT !.card_count = Cardinality(CardsOfSet(cards, s.set_id))] :
                          s \in sets}
           Ended(step, c, s, k) ==
               Migrated(step, c, s, k, creators_data, sets_data, cards_data, unique_sets)
       IN \* the tables are cleared and the clearing committed
          IF creators_data # <<>> /\ ~CreatorConstructed
          THEN Ended("creators", {}, {}, {})
          ELSE IF ~DistinctIds(creators_data, "creator_id")
          THEN Ended("creators", {}, {}, {})
          ELSE IF \/ ~DistinctIds(unique_sets, "set_id")
                  \/ \E s \in sets : ~HasCreator(creators, s.creator_id)
          THEN Ended("sets", creators, {}, {})
          ELSE IF \/ ~DistinctIds(migrated, "card_id")
                  \/ \E k \in cards : ~HasCreator(creators, k.creator_id)
          THEN Ended("cards", creators, sets, {})
          ELSE Ended("done", creators, counted, cards)

\* the database a run starts on: empty, or holding earlier records
InitMigrate ==
    /\ backend = "postgresql"
    /\ pgCreators \in SUBSET ExportCreatorRows
    /\ pgSets \in {S \in SUBSET ExportSetRows :
                      \A r \in S : HasCreator(pgCreators, r.creator_id)}
    /\ pgCards \in {S \in SUBSET ExportCardRows : \A r \in S : HasSet(pgSets, r.set_id)}
    /\ jsCreators = <<>> /\ jsSets = <<>> /\ jsCards = <<>>
    /\ last = NoCall
    /\ calls = 0
    /\ tx = [t \in Tx |-> Idle]
    /\ fn = NoFn

\* the script is run once
NextMigrate ==
    /\ fn = NoFn
    /\ \E creators_data \in LegacyCreatorLists, sets_data \in LegacySetLists,
          cards_data \in LegacyCardLists :
           migrate_data(creators_data, sets_data, cards_data)

SpecMigrate == InitMigrate /\ [][NextMigrate]_vars

\* the set_ids of the sets that survived deduplication
SurvivingSetIds == {fn.unique_sets[i].set_id : i \in 1..Len(fn.unique_sets)}

\* C22: a legacy card is in the target store after the run exactly when its
\* set_id is that of a set that survived deduplication, and every card of
\* the target store references a set of the target store.
C22_CardsOfSurvivingSetsMigrated ==
    fn.op = "migrate_data" =>
        /\ \A i \in 1..Len(fn.cards_data) :
               fn.cards_data[i].set_id \in SurvivingSetIds
               <=> \E r \in pgCards : /\ r.card_id = fn.cards_data[i].card_id
                                      /\ r.set_id = fn.cards_data[i].set_id
        /\ \A r \in pgCards : HasSet(pgSets, r.set_id)

\* legacy data whose records name each other: every set a legacy creator,
\* every card a legacy set and a legacy creator, no id twice
ConsistentLegacy ==
    /\ DistinctIds(fn.sets_data, "set_id")
    /\ DistinctIds(fn.cards_data, "card_id")
    /\ \A i \in 1..Len(fn.sets_data) :
           HasCreator(AsCreatorRows(fn.creators_data), fn.sets_data[i].creator_id)
    /\ \A i \in 1..Len(fn.cards_data) :
           /\ HasCreator(AsCreatorRows(fn.creators_data), fn.cards_data[i].creator_id)
           /\ \E j \in 1..Len(fn.sets_data) : fn.sets_data[j].set_id = fn.cards_data[i].set_id

C28_FailedMigrationLeavesDatabase ==
    (fn.op = "migrate_data" /\ ~fn.ok) =>
        /\ pgCreators = fn.before.creators
        /\ pgSets = fn.before.sets
        /\ pgCards = fn.before.cards

\* ========================================================= card generation
\* api_server.py POST /api/generate: generate_content on the relational
\* store.  failing is the set of positions i whose card fails: the generator
\* or create_card raises for it, and create_card rolls back.
MaxCards == 3

\* dm.cards.create_card(card_record) in the loop: the card with its explicit
\* order_index, and the set's card_count bumped in the same commit
RECURSIVE generate_cards_stop_at_failure(_, _, _, _, _, _)
RECURSIVE generate_cards(_, _, _, _, _, _)

generate_cards_stop_at_failure(i, num_cards, failing, set_id, creator_id, acc) ==
    IF i > num_cards \/ i \in failing THEN acc
    ELSE generate_cards_stop_at_failure(
             i + 1, num_cards, failing, set_id, creator_id,
             [attempted |-> acc.attempted + 1,
              generated |-> acc.generated + 1,
              cards |-> acc.cards \cup {[card_id |-> set_id \o "_card_" \o ToString(i),
                                         set_id |-> set_id, creator_id |-> creator_id,
                                         order_index |-> i]},
              sets |-> BumpCardCount(acc.sets, set_id, 1)])
generate_cards(i, num_cards, failing, set_id, creator_id, acc) ==
    IF i > num_cards THEN acc
    ELSE LET card == [card_id |-> set_id \o "_card_" \o ToString(i),
                      set_id |-> set_id, creator_id |-> creator_id, order_index |-> i]
         IN  IF \/ i \in failing
                \/ HasCard(acc.cards, card.card_id)
                \/ ~HasSet(acc.sets, set_id)
                \/ ~HasCreator(pgCreators, creator_id)
             THEN \* except Exception: continue
                  generate_cards(i + 1, num_cards, failing, set_id, creator_id,
                                 [acc EXCEPT !.attempted = @ + 1])
             ELSE generate_cards(i + 1, num_cards, failing, set_id, creator_id,
                                 [attempted |-> acc.attempted + 1,
                                  generated |-> acc.generated + 1,
                                  cards |-> acc.cards \cup {card},
                                  sets |-> BumpCardCount(acc.sets, set_id, 1)])

\* the response of the request, with what the loop did
Generated(creator_id, num_cards, failing, status, set_id, attempted, cards_generated) ==
    /\ calls < MaxRequests
    /\ calls' = calls + 1
    /\ last' = [op |-> "generate_content", id |-> set_id, ok |-> status = 200]
    /\ fn' = [op |-> "generate_content", creator_id |-> creator_id,
              num_cards |-> num_cards, failing |-> failing, status |-> status,
              success |-> status = 200, set_id |-> set_id,
              attempted |-> attempted, cards_generated |-> cards_generated]
    /\ UNCHANGED <<backend, pgCreators, jsVars, tx>>

\* stamp is the fresh part of the set_id create_set generates
generate_content(creator_id, num_cards, failing, stamp) ==
    /\ backend = "postgresql"
    /\ ~HasSet(pgSets, stamp)
    /\ IF ~HasCreator(pgCreators, creator_id)
       THEN /\ UNCHANGED <<pgSets, pgCards>>
            /\ Generated(creator_id, num_cards, failing, 404, NoId, 0, 0)
       ELSE LET content_set == [set_id |-> stamp, creator_id |-> creator_id,
                                difficulty_level |-> "intermediate", card_count |-> 0]
                done == generate_cards(1, num_cards, failing, stamp, creator_id,
                                       [attempted |-> 0, generated |-> 0, cards |-> pgCards,
                                        sets |-> pgSets \cup {content_set}])
            IN \* update_set(set_id, {'card_count': len(generated_cards)})
               /\ pgCards' = done.cards
               /\ pgSets' = {IF s.set_id = stamp
                             THEN [s EXCEPT !.card_count = done.generated] ELSE s :
                                s \in done.sets}
               /\ Generated(creator_id, num_cards, failing, 200, stamp,
                            done.attempted, done.generated)

InitGenerate ==
    /\ backend = "postgresql"
    /\ pgCreators \in SUBSET ExportCreatorRows
    /\ pgSets = {} /\ pgCards = {}
    /\ jsCreators = <<>> /\ jsSets = <<>> /\ jsCards = <<>>
    /\ last = NoCall
    /\ calls = 0
    /\ tx = [t \in Tx |-> Idle]
    /\ fn = NoFn

NextGenerate ==
    \E creator_id \in CreatorIds, num_cards \in 0..MaxCards, stamp \in SetIds :
        \E failing \in SUBSET (1..num_cards) :
            generate_content(creator_id, num_cards, failing, stamp)

SpecGenerate == InitGenerate /\ [][NextGenerate]_vars

\* C26: a generation for num_cards = N attempts all N cards whichever of
\* them fail, stores a card for every position that did not fail, reports
\* as cards_generated the number of cards stored in the new set, and leaves
\* the new set's card_count at that number.
C26_BatchSkipsFailures ==
    (fn.op = "generate_content" /\ fn.success) =>
        LET stored == CardsOfSet(pgCards, fn.set_id)
        IN /\ fn.attempted = fn.num_cards
           /\ {k.order_index : k \in stored} = (1..fn.num_cards) \ fn.failing
           /\ fn.cards_generated = Cardinality(stored)
           /\ HasSet(pgSets, fn.set_id)
           /\ SetRow(fn.set_id).card_count = Cardinality(stored)

\* a generation in which a card failed and a later card was stored
C26_Witness ==
    /\ fn.op = "generate_content" /\ fn.success
    /\ \E i \in fn.failing :
           \E k \in CardsOfSet(pgCards, fn.set_id) : k.order_index > i

\* C27: in every reachable state each stored set's creator_id names a stored
\* creator, and each stored card's set_id names a stored set and its
\* creator_id a stored creator.
C27_ReferencesResolve ==
    /\ \A s \in Records(pgSets, jsSets) :
           s.creator_id \in StoredIds(pgCreators, jsCreators, "creator_id")
    /\ \A k \in Records(pgCards, jsCards) :
           /\ k.set_id \in StoredIds(pgSets, jsSets, "set_id")
           /\ k.creator_id \in StoredIds(pgCreators, jsCreators, "creator_id")

\* ============================================================ card append
\* create_card without order_index and delete_card on the relational store,
\* from a store that holds creator c1 with its sets, and at most the first
\* card of set s1 at the position create_card gave it.
AppendCardIds == {"s1_card_a", "s1_card_b", "s1_card_c"}

AppendCardData == {CardDict({"set_id", "creator_id"}, NoId, s, "c1", 0) : s \in SetIds}

InitAppend ==
    /\ backend = "postgresql"
    /\ pgCreators = {[creator_id |-> "c1", display_name |-> "Ada"]}
    /\ \E first \in SUBSET {[card_id |-> "s1_card_a", set_id |-> "s1", creator_id |-> "c1",
                             order_index |-> 1]} :
           /\ pgCards = first
           /\ pgSets = {[set_id |-> s, creator_id |-> "c1", difficulty_level |-> "intermediate",
                         card_count |-> Cardinality(CardsOfSet(first, s))] : s \in SetIds}
    /\ jsCreators = <<>> /\ jsSets = <<>> /\ jsCards = <<>>
    /\ last = NoCall
    /\ calls = 0
    /\ tx = [t \in Tx |-> Idle]
    /\ fn = NoFn

NextAppend ==
    \/ \E d \in AppendCardData, u \in AppendCardIds : PostgreSQLContentData_create_card(d, u)
    \/ \E id \in AppendCardIds : PostgreSQLContentData_delete_card(id)

SpecAppend == InitAppend /\ [][NextAppend]_vars

\* C29: the order_index create_card assigns to a card created without one
\* is greater than the order_index of every card already stored in its set.
C29_AutoIndexAboveStored ==
    [][ \A d \in AppendCardData, u \in AppendCardIds :
          (PostgreSQLContentData_create_card(d, u) /\ last'.ok)
          => \A k \in CardsOfSet(pgCards, d.set_id) :
                 RowOf(pgCards', "card_id", u).order_index > k.order_index
      ]_vars

\* ---------------------------------------------------------------------------
\* FormatConverter: the creator-id remapping of one run
\* ---------------------------------------------------------------------------

\* the {8} of the pattern _[a-f0-9]{8}$
UuidLen == 8

\* the class [a-f0-9]
HexDigits == {"a", "b", "c", "d", "e", "f",
              "0", "1", "2", "3", "4", "5", "6", "7", "8", "9"}

\* the class [a-z0-9_]
CleanChars == {"a", "b", "c", "d", "e", "f", "g", "h", "i", "j", "k", "l", "m",
               "n", "o", "p", "q", "r", "s", "t", "u", "v", "w", "x", "y", "z",
               "0", "1", "2", "3", "4", "5", "6", "7", "8", "9", "_"}

\* re.sub(r'_[a-f0-9]{8}$', '', old_id)
re_sub_uuid_suffix(old_id) ==
    LET n == Len(old_id)
    IN  IF /\ n >= UuidLen + 1
           /\ old_id[n - UuidLen] = "_"
           /\ \A i \in (n - UuidLen + 1)..n : old_id[i] \in HexDigits
        THEN SubSeq(old_id, 1, n - UuidLen - 1)
        ELSE old_id

\* re.sub(r'[^a-z0-9_]', '', v)
RECURSIVE re_sub_unclean(_)
re_sub_unclean(v) ==
    IF v = <<>> THEN <<>>
    ELSE IF Head(v) \in CleanChars THEN <<Head(v)>> \o re_sub_unclean(Tail(v))
         ELSE re_sub_unclean(Tail(v))

\* FormatConverter.clean_creator_id: the map after the call and the id returned
clean_creator_id(creator_id_map, old_id) ==
    IF old_id \in DOMAIN creator_id_map
    THEN [creator_id_map |-> creator_id_map, clean_id |-> creator_id_map[old_id]]
    ELSE LET clean_id == re_sub_unclean(str_lower(re_sub_uuid_suffix(old_id)))
         IN  [creator_id_map |-> (old_id :> clean_id) @@ creator_id_map,
              clean_id |-> clean_id]

\* source creator ids: a name, then nothing, a uuid suffix, a suffix one digit
\* short, or a suffix in upper case
SourceNames == {<<"k">>, <<"K">>, <<"-">>}
SourceSuffixes == {<<>>,
                   <<"_", "a", "1", "b", "2", "c", "3", "d", "4">>,
                   <<"_", "d", "e", "a", "d", "b", "e", "e", "f">>,
                   <<"_", "a", "1", "b", "2", "c", "3", "d">>,
                   <<"_", "C", "1", "C", "2", "C", "3", "C", "4">>}
SourceCreatorIds == {n \o s : n \in SourceNames, s \in SourceSuffixes}
AvatarUrls == {NoStr, "data/images/avatar.jpg"}
SourceCreators == [creator_id : SourceCreatorIds, avatar_url : AvatarUrls]
SourceCardIds == <<"card_a", "card_b">>

\* f"s{n:03d}", f"c{n:03d}"
Numbered(letter, n) ==
    letter \o (IF n < 10 THEN "00" ELSE IF n < 100 THEN "0" ELSE "") \o ToString(n)

\* the loop over creators: convert_creator indexes clean_id[0] when the
\* creator has no avatar_url
RECURSIVE convert_creators(_, _, _)
convert_creators(creator_id_map, creators, converted) ==
    IF creators = <<>>
    THEN [raised |-> FALSE, creator_id_map |-> creator_id_map, converted |-> converted]
    ELSE LET creator == Head(creators)
             c == clean_creator_id(creator_id_map, creator.creator_id)
         IN  IF creator.avatar_url = NoStr /\ c.clean_id = <<>>
             THEN [raised |-> TRUE, creator_id_map |-> c.creator_id_map,
                   converted |-> converted]
             ELSE convert_creators(c.creator_id_map, Tail(creators),
                      Append(converted,
                             [creator_id |-> c.clean_id,
                              avatar_url |-> IF creator.avatar_url = NoStr
                                             THEN "https://placehold.co/100x100"
                                             ELSE "./images/creators/avatar.jpg"]))

\* the loop over content sets, set_counter starting at n
RECURSIVE convert_content_sets(_, _, _, _)
convert_content_sets(creator_id_map, content_sets, n, converted) ==
    IF content_sets = <<>>
    THEN [creator_id_map |-> creator_id_map, converted |-> converted]
    ELSE LET content_set == Head(content_sets)
             c == clean_creator_id(creator_id_map, content_set.creator_id)
         IN  convert_content_sets(c.creator_id_map, Tail(content_sets), n + 1,
                 Append(converted,
                        [set_id |-> content_set.set_id,
                         set_number |-> Numbered("s", n),
                         creator_id |-> c.clean_id,
                         card_count |-> 0]))

\* the keys of cards_by_set, in order of insertion
RECURSIVE cards_by_set_keys(_, _)
cards_by_set_keys(cards, keys) ==
    IF cards = <<>> THEN keys
    ELSE cards_by_set_keys(Tail(cards),
             IF \E i \in 1..Len(keys) : keys[i] = Head(cards).set_id
             THEN keys ELSE Append(keys, Head(cards).set_id))

\* list.sort(key=order_index): stable
RECURSIVE sort_by_order_index(_)
sort_by_order_index(cards) ==
    IF cards = <<>> THEN <<>>
    ELSE LET rest == sort_by_order_index(Tail(cards))
             before == Cardinality({i \in 1..Len(rest) :
                                       rest[i].order_index < Head(cards).order_index})
         IN  SubSeq(rest, 1, before) \o <<Head(cards)>> \o SubSeq(rest, before + 1, Len(rest))

\* the loop over the cards of one set, card_counter starting at n
RECURSIVE convert_set_cards(_, _, _, _)
convert_set_cards(creator_id_map, set_cards, n, converted) ==
    IF set_cards = <<>>
    THEN [creator_id_map |-> creator_id_map, converted |-> converted]
    ELSE LET card == Head(set_cards)
             c == clean_creator_id(creator_id_map, card.creator_id)
         IN  convert_set_cards(c.creator_id_map, Tail(set_cards), n + 1,
                 Append(converted,
                        [card_id |-> card.card_id,
                         card_number |-> Numbered("c", n),
                         set_id |-> card.set_id,
                         creator_id |-> c.clean_id,
                         order_index |-> card.order_index]))

\* the loop over cards_by_set.items()
RECURSIVE convert_cards(_, _, _, _)
convert_cards(creator_id_map, cards, keys, converted) ==
    IF keys = <<>>
    THEN [creator_id_map |-> creator_id_map, converted |-> converted]
    ELSE LET InSet(card) == card.set_id = Head(keys)
             r == convert_set_cards(creator_id_map,
                                    sort_by_order_index(SelectSeq(cards, InSet)),
                                    1, converted)
         IN  convert_cards(r.creator_id_map, cards, Tail(keys), r.converted)

\* FormatConverter.convert_all on a fresh converter
convert_all(creators, content_sets, cards) ==
    LET cs == convert_creators(<<>>, creators, <<>>)
        ss == convert_content_sets(cs.creator_id_map, content_sets, 1, <<>>)
        ks == convert_cards(ss.creator_id_map, cards, cards_by_set_keys(cards, <<>>), <<>>)
        counted == [j \in 1..Len(ss.converted) |->
                       [ss.converted[j] EXCEPT !.card_count =
                           Cardinality({i \in 1..Len(ks.converted) :
                               ks.converted[i].set_id = ss.converted[j].set_id})]]
    IN  /\ fn.op = "convert_input"
        /\ fn' = IF cs.raised
                 THEN [op |-> "convert_all", status |-> "IndexError",
                       creators |-> creators, content_sets |-> content_sets,
                       cards |-> cards,
                       creator_id_map |-> cs.creator_id_map,
                       converted_creators |-> <<>>, converted_sets |-> <<>>,
                       converted_cards |-> <<>>]
                 ELSE [op |-> "convert_all", status |-> "saved",
                       creators |-> creators, content_sets |-> content_sets,
                       cards |-> cards,
                       creator_id_map |-> ks.creator_id_map,
                       converted_creators |-> cs.converted,
                       converted_sets |-> counted,
                       converted_cards |-> ks.converted]
        /\ UNCHANGED <<backend, pgVars, jsVars, last, calls, tx>>

\* the three input files: two creators, one set and two cards that each
\* reference one of the two creators
InitConverter ==
    /\ backend = "json"
    /\ pgCreators = {} /\ pgSets = {} /\ pgCards = {}
    /\ jsCreators = <<>> /\ jsSets = <<>> /\ jsCards = <<>>
    /\ last = NoCall
    /\ calls = 0
    /\ tx = [t \in Tx |-> Idle]
    /\ \E first \in SourceCreators, second \in SourceCreatorIds :
       \E owner \in 1..2, author \in [1..2 -> 1..2], place \in [1..2 -> SetIds],
          order \in [1..2 -> 1..2] :
           LET creators == <<first, [creator_id |-> second,
                                     avatar_url |-> "data/images/avatar.jpg"]>>
           IN  fn = [op |-> "convert_input",
                     creators |-> creators,
                     content_sets |-> <<[set_id |-> "s1",
                                         creator_id |-> creators[owner].creator_id]>>,
                     cards |-> [i \in 1..2 |->
                                  [card_id |-> SourceCardIds[i],
                                   set_id |-> place[i],
                                   creator_id |-> creators[author[i]].creator_id,
                                   order_index |-> order[i]]]]

NextConverter == convert_all(fn.creators, fn.content_sets, fn.cards)

SpecConverter == InitConverter /\ [][NextConverter]_vars

\* the positions of the converted creators that carry the id
ConvertedCreatorsWithId(id) ==
    {i \in 1..Len(fn.converted_creators) : fn.converted_creators[i].creator_id = id}

\* the positions of the source creators that carry the id
SourceCreatorsWithId(id) ==
    {i \in 1..Len(fn.creators) : fn.creators[i].creator_id = id}

\* the source card of a converted card
SourceCardOf(card) ==
    CHOOSE k \in {fn.cards[i] : i \in 1..Len(fn.cards)} : k.card_id = card.card_id

\* C30: within one FormatConverter run that completes, distinct source creator
\* ids are mapped to distinct clean ids, so every converted set and every
\* converted card references exactly the converted creators that its source
\* record referenced.
C30_RemapPreservesOwnership ==
    (fn.op = "convert_all" /\ fn.status = "saved") =>
        /\ \A a, b \in DOMAIN fn.creator_id_map :
               a # b => fn.creator_id_map[a] # fn.creator_id_map[b]
        /\ \A j \in 1..Len(fn.converted_sets) :
               ConvertedCreatorsWithId(fn.converted_sets[j].creator_id)
                   = SourceCreatorsWithId(fn.content_sets[j].creator_id)
        /\ \A i \in 1..Len(fn.converted_cards) :
               ConvertedCreatorsWithId(fn.converted_cards[i].creator_id)
                   = SourceCreatorsWithId(SourceCardOf(fn.converted_cards[i]).creator_id)

====
